---- MODULE Spec2Model ----
(***************************************************************************)
(* TokenController (src/src/b_provider_adapter/token_controller.py): the   *)
(* TPM / RPM / concurrency admission controller, its ledger of CallRecords *)
(* and the retrying acquire_slot context manager.                          *)
(*                                                                         *)
(* The controller runs on one asyncio event loop.  A coroutine gives up    *)
(* control only at an await that really suspends: asyncio.sleep, a         *)
(* semaphore with no free permit, the caller's own I/O.  The bodies of the *)
(* "async with self.lock" blocks hold no await, so the lock is never       *)
(* contended and every stretch of code between two suspension points is    *)
(* one atomic action below.                                                *)
(***************************************************************************)
EXTENDS Integers, Sequences, FiniteSets, TLC

VARIABLES
    tpm, rpm, max_concurrent,   \* the ceilings given to __init__
    retry_config,               \* self.retry_config
    records,                    \* self.records, the ledger (a deque of CallRecord)
    in_flight,                  \* self.in_flight: call_id -> task
    semaphore,                  \* self.semaphore: the permits that are free
    lock,                       \* self.lock: the task that holds it, or Free
    tpm_counter, rpm_counter,   \* self._tpm_counter, self._rpm_counter
    now,                        \* time.monotonic(), in seconds
    task,                       \* every caller's task: where it is, its locals
    last_call,                  \* the last call of confirm or abort from outside
    parser,                     \* a MarkdownParser: self.lines, self.cursor, self.strategy
    returned                    \* the last call of a method of the parser and its outcome

vars == <<tpm, rpm, max_concurrent, retry_config, records, in_flight, semaphore,
          lock, tpm_counter, rpm_counter, now, task, last_call, parser, returned>>

(***************************************************************************)
(* Bounds of the model.                                                    *)
(***************************************************************************)
NumCallers == 2          \* tasks that call acquire_slot
NumPermitCallers == 3    \* tasks that call acquire_slot and compete for the permits
NumClients == 2          \* tasks that use the low-level API
NumQueueClients == 4     \* tasks that queue for one permit
NumBurst == 12           \* tasks of the burst
BurstFree == 4           \* of which so many call in any order
NumLive == 3             \* tasks of the burst that is larger than a ceiling
NumRetryCallers == 1     \* tasks that call acquire_slot under the long retry policies
MaxAttempts == 4         \* the largest max_attempts of a retry policy
NumEstimateClients == 2  \* tasks that call with prompts of many lengths
MaxPromptLen == 9        \* the longest prompt, in characters
NumGateClients == 3      \* tasks that meet at the capacity gate
NumLockCallers == 2      \* tasks followed from one statement of the lock to the next
NumContextCallers == 2   \* tasks whose blocks call set_result more than once
MaxSetResults == 2       \* calls of set_result inside one block
NumSizeClients == 4      \* tasks whose requests differ in size
MaxLines == 3            \* the lines of the longest text given to the parser
MaxSkip == 2             \* the largest max_lines of a SkipRange
MaxTicks == 3            \* the clock stops after MaxTicks * TickSeconds
TickSeconds == 30        \* the seconds one advance of the clock takes

(***************************************************************************)
(* Constants of the program.                                               *)
(***************************************************************************)
Window == 60             \* cutoff_time = now - 60.0
DefaultMaxAttempts == 3  \* RetryConfig.max_attempts
BackoffFactor == 1       \* RetryConfig.backoff_factor

Callers == 1..NumCallers
Clients == 1..NumClients
NoId == <<>>             \* call_id = None
Free == 0                \* self.lock is not held
None == "None"

(***************************************************************************)
(* Exceptions.  CancelledError derives from BaseException; the others from *)
(* Exception.                                                              *)
(***************************************************************************)
ProviderError == "ConnectionError"
OtherError == "KeyError"
ResultNotSet == "RuntimeError: ctx.set_result() was never called"
RecordNotFound == "ValueError: record not found for replacement"
GeneratorDidNotStop == "RuntimeError: generator didn't stop"
UnexpectedRetryLogic == "RuntimeError: Unexpected retry logic error"
Cancelled == "CancelledError"

IsException(e) == e # Cancelled

\* RetryConfig.retry_exceptions: the default tuple, and a narrower one.
DefaultRetryExceptions == {"TimeoutError", "ConnectionError", "Exception"}
CustomRetryExceptions == {"TimeoutError", "ConnectionError"}

\* "except config.retry_exceptions as e": isinstance against the tuple.
Matches(e, classes) ==
    \/ e = ProviderError /\ "ConnectionError" \in classes
    \/ IsException(e) /\ "Exception" \in classes

RetryConfig(m, classes) ==
    [max_attempts |-> m, backoff_factor |-> BackoffFactor, retry_exceptions |-> classes]

(***************************************************************************)
(* The controller's state as one value, for the operations below.          *)
(***************************************************************************)
Ctl == [records |-> records, in_flight |-> in_flight, semaphore |-> semaphore,
        tpm_counter |-> tpm_counter, rpm_counter |-> rpm_counter]

CallRecord(id, inp, out, ts, est) ==
    [id |-> id, input_tokens |-> inp, output_tokens |-> out, timestamp |-> ts,
     estimate |-> est]

Tokens(r) == r.input_tokens + r.output_tokens

\* A sweep that drops every entry older than the window, estimates included.
ExpireEstimatesToo(k, t) ==
    [k EXCEPT !.records = SelectSeq(@, LAMBDA r : ~(r.timestamp < t - Window))]

\* A sweep that removes nothing.
NeverExpires(k, t) == k

\* _cleanup_expired: the while loop pops the head while it is older than the
\* cutoff; estimates go to temp_est_deque, real records leave the counters.
RECURSIVE ExpireLoop(_, _, _)
ExpireLoop(k, temp, cutoff) ==
    IF k.records # <<>> /\ Head(k.records).timestamp < cutoff
    THEN LET record == Head(k.records)
             popped == [k EXCEPT !.records = Tail(@)]
         IN IF record.estimate
            THEN ExpireLoop(popped, Append(temp, record), cutoff)
            ELSE ExpireLoop([popped EXCEPT !.tpm_counter = @ - Tokens(record),
                                           !.rpm_counter = @ - 1],
                            temp, cutoff)
    ELSE [k EXCEPT !.records = temp \o @]

\* A sweep that also removes the confirmed entries exactly as old as the window.
ExpireAtWindow(k, t) == ExpireLoop(k, <<>>, t - Window + 1)

CleanupExpired(k, t) == ExpireLoop(k, <<>>, t - Window)

\* A gate that tests the request rate alone.
RpmOk(k, required_tokens) == k.rpm_counter < rpm

\* A gate that wants one token to spare under the TPM ceiling.
TpmStrict(k, required_tokens) ==
    /\ k.tpm_counter + required_tokens < tpm
    /\ k.rpm_counter < rpm

\* A test that holds the aggregates against the ceilings without the tokens
\* of the request.
LedgerUnderCeilings(k, required_tokens) ==
    /\ k.tpm_counter <= tpm
    /\ k.rpm_counter < rpm

\* _get_current_load and the test of _wait_for_capacity: tpm_ok and rpm_ok.
CapacityOk(k, required_tokens) ==
    /\ k.tpm_counter + required_tokens <= tpm
    /\ k.rpm_counter < rpm

\* An admission that appends its estimate and enters no task in in_flight.
AppendUnregistered(k, id, input_est, max_output_token, t, who) ==
    [k EXCEPT !.records = Append(@, CallRecord(id, input_est, max_output_token, t, TRUE)),
              !.tpm_counter = @ + (input_est + max_output_token),
              !.rpm_counter = @ + 1]

\* wait_before_call_if_needed, after the permit: the estimate record is
\* appended, the counters grow, the task is entered in in_flight.
AppendEstimate(k, id, input_est, max_output_token, t, who) ==
    [k EXCEPT !.records = Append(@, CallRecord(id, input_est, max_output_token, t, TRUE)),
              !.tpm_counter = @ + (input_est + max_output_token),
              !.rpm_counter = @ + 1,
              !.in_flight = [i \in DOMAIN @ \cup {id} |-> IF i = id THEN who ELSE @[i]]]

\* The index of the first record of the id, estimate or not, or 0.
FirstRecord(recs, id) ==
    LET hits == {i \in DOMAIN recs : recs[i].id = id}
    IN IF hits = {} THEN 0 ELSE CHOOSE i \in hits : \A j \in hits : i <= j

\* The index of the first record "rec.id == call_id and rec.estimate", or 0.
FirstEstimate(recs, id) ==
    LET hits == {i \in DOMAIN recs : recs[i].id = id /\ recs[i].estimate}
    IN IF hits = {} THEN 0 ELSE CHOOSE i \in hits : \A j \in hits : i <= j

PopInFlight(f, id) == [i \in DOMAIN f \ {id} |-> f[i]]

\* A confirm that, with no estimate of the id, appends the real record and
\* raises nothing.
ConfirmAppends(k, id, actual_input_tokens, actual_output_tokens, t) ==
    LET i == FirstEstimate(k.records, id)
        real_record == CallRecord(id, actual_input_tokens, actual_output_tokens, t, FALSE)
    IN [st |-> [k EXCEPT !.records = IF i = 0 THEN Append(@, real_record)
                                     ELSE [@ EXCEPT ![i] = real_record],
                         !.tpm_counter = @ + (actual_input_tokens + actual_output_tokens)
                                           - (IF i = 0 THEN 0 ELSE Tokens(k.records[i])),
                         !.in_flight = PopInFlight(@, id),
                         !.semaphore = @ + 1],
        err |-> None]

\* A confirm that adds the actual tokens and leaves the estimate in the counter.
ConfirmAddsActual(k, id, actual_input_tokens, actual_output_tokens, t) ==
    LET i == FirstEstimate(k.records, id)
    IN IF i = 0
       THEN [st |-> k, err |-> RecordNotFound]
       ELSE [st |-> [k EXCEPT !.records[i] = CallRecord(id, actual_input_tokens,
                                                        actual_output_tokens, t, FALSE),
                              !.tpm_counter = @ + (actual_input_tokens + actual_output_tokens),
                              !.in_flight = PopInFlight(@, id),
                              !.semaphore = @ + 1],
             err |-> None]

\* A confirm that releases a permit also when it finds no estimate of the id.
ConfirmReleasesUnfound(k, id, actual_input_tokens, actual_output_tokens, t) ==
    LET i == FirstEstimate(k.records, id)
    IN IF i = 0
       THEN [st |-> [k EXCEPT !.semaphore = @ + 1], err |-> RecordNotFound]
       ELSE [st |-> [k EXCEPT !.records[i] = CallRecord(id, actual_input_tokens,
                                                        actual_output_tokens, t, FALSE),
                              !.tpm_counter = @ + (actual_input_tokens + actual_output_tokens)
                                                - Tokens(k.records[i]),
                              !.in_flight = PopInFlight(@, id),
                              !.semaphore = @ + 1],
             err |-> None]

\* A confirm that, with no estimate of the id, appends the real record before
\* it raises.
ConfirmRaisesAfterAppend(k, id, actual_input_tokens, actual_output_tokens, t) ==
    LET i == FirstEstimate(k.records, id)
        real_record == CallRecord(id, actual_input_tokens, actual_output_tokens, t, FALSE)
    IN IF i = 0
       THEN [st |-> [k EXCEPT !.records = Append(@, real_record),
                              !.tpm_counter = @ + Tokens(real_record),
                              !.rpm_counter = @ + 1],
             err |-> RecordNotFound]
       ELSE [st |-> [k EXCEPT !.records[i] = real_record,
                              !.tpm_counter = @ + Tokens(real_record) - Tokens(k.records[i]),
                              !.in_flight = PopInFlight(@, id),
                              !.semaphore = @ + 1],
             err |-> None]

\* A confirm that removes the estimate and appends the real record at the
\* tail of the ledger.
ConfirmMovesToTail(k, id, actual_input_tokens, actual_output_tokens, t) ==
    LET i == FirstEstimate(k.records, id)
        real_record == CallRecord(id, actual_input_tokens, actual_output_tokens, t, FALSE)
    IN IF i = 0
       THEN [st |-> k, err |-> RecordNotFound]
       ELSE [st |-> [k EXCEPT !.records = Append(SubSeq(@, 1, i - 1) \o
                                                 SubSeq(@, i + 1, Len(@)), real_record),
                              !.tpm_counter = @ + Tokens(real_record) - Tokens(k.records[i]),
                              !.in_flight = PopInFlight(@, id),
                              !.semaphore = @ + 1],
             err |-> None]

\* wait_after_call_if_needed: the estimate is replaced by the real record and
\* the permit released; with no estimate of that id, ValueError is raised
\* inside the lock, before in_flight.pop and semaphore.release.
WaitAfterCall(k, id, actual_input_tokens, actual_output_tokens, t) ==
    LET i == FirstEstimate(k.records, id)
    IN IF i = 0
       THEN [st |-> k, err |-> RecordNotFound]
       ELSE LET token_delta == (actual_input_tokens + actual_output_tokens)
                               - Tokens(k.records[i])
                real_record == CallRecord(id, actual_input_tokens,
                                          actual_output_tokens, t, FALSE)
            IN [st |-> [k EXCEPT !.records[i] = real_record,
                                 !.tpm_counter = @ + token_delta,
                                 !.in_flight = PopInFlight(@, id),
                                 !.semaphore = @ + 1],
                err |-> None]

RECURSIVE SumTokens(_)
SumTokens(recs) == IF recs = <<>> THEN 0 ELSE Tokens(Head(recs)) + SumTokens(Tail(recs))

\* A cleanup that releases a permit whether or not the id held one.
ReleaseAlways(k, id) ==
    [st |-> [k EXCEPT !.records = SelectSeq(@, LAMBDA r : r.id # id),
                      !.in_flight = PopInFlight(@, id),
                      !.semaphore = @ + 1],
     err |-> None]

\* A cleanup that takes the tokens of the id from the TPM aggregate and
\* leaves the RPM aggregate as it is.
CleanupLeavesRpm(k, id) ==
    LET matching == SelectSeq(k.records, LAMBDA r : r.id = id)
        was_in_flight == id \in DOMAIN k.in_flight
    IN [st |-> [k EXCEPT !.records = SelectSeq(@, LAMBDA r : r.id # id),
                         !.tpm_counter = @ - SumTokens(matching),
                         !.in_flight = PopInFlight(@, id),
                         !.semaphore = IF was_in_flight THEN @ + 1 ELSE @],
        err |-> None]

\* A cleanup that removes the records of the id and pops in_flight but keeps
\* the permit.
CleanupKeepsPermit(k, id) ==
    LET matching == SelectSeq(k.records, LAMBDA r : r.id = id)
    IN [st |-> [k EXCEPT !.records = SelectSeq(@, LAMBDA r : r.id # id),
                         !.tpm_counter = @ - SumTokens(matching),
                         !.rpm_counter = @ - Len(matching),
                         !.in_flight = PopInFlight(@, id)],
        err |-> None]

\* cleanup_call: every record of the id leaves the ledger and the counters;
\* the permit is released only if the id was in in_flight.
CleanupCall(k, id) ==
    LET matching == SelectSeq(k.records, LAMBDA r : r.id = id)
        was_in_flight == id \in DOMAIN k.in_flight
    IN [st |-> [k EXCEPT !.records = SelectSeq(@, LAMBDA r : r.id # id),
                         !.tpm_counter = @ - SumTokens(matching),
                         !.rpm_counter = @ - Len(matching),
                         !.in_flight = PopInFlight(@, id),
                         !.semaphore = IF was_in_flight THEN @ + 1 ELSE @],
        err |-> None]

\* asyncio.Semaphore.locked(): no permit is free, or a task already waits in
\* acquire(); a task that finds the pool locked joins the waiters.
Locked(k) == k.semaphore = 0 \/ \E c \in DOMAIN task : task[c].pc = "sem_wait"

\* A gate whose caller appends without a permit.
GateWithoutPermit(k, id, input_est, max_output_token, t, who) ==
    LET swept == CleanupExpired(k, t)
    IN IF ~CapacityOk(swept, input_est + max_output_token)
       THEN [st |-> swept, to |-> "sleep"]
       ELSE [st |-> AppendEstimate(swept, id, input_est, max_output_token, t, who),
             to |-> "admitted"]

\* The rank of the call of t among the calls of wait_before_call_if_needed,
\* for the tasks whose calls are counted; 0 before the call.
Arrival(t) ==
    LET a == SelectSeq(t.log, LAMBDA ev : ev[1] = "arrive")
    IN IF a = <<>> THEN 0 ELSE a[1][2]

\* A gate that serves in the order of arrival: a poll passes only if no task
\* that called earlier still waits in the gate.
GateInOrder(k, id, input_est, max_output_token, t, who) ==
    LET swept == CleanupExpired(k, t)
    IN IF \/ ~CapacityOk(swept, input_est + max_output_token)
          \/ \E d \in DOMAIN task : /\ d # who
                                    /\ task[d].pc = "gate"
                                    /\ Arrival(task[d]) < Arrival(task[who])
       THEN [st |-> swept, to |-> "sleep"]
       ELSE IF Locked(swept)
       THEN [st |-> swept, to |-> "sem_wait"]
       ELSE [st |-> AppendEstimate([swept EXCEPT !.semaphore = @ - 1],
                                   id, input_est, max_output_token, t, who),
             to |-> "admitted"]

(***************************************************************************)
(* One iteration of _wait_for_capacity and what follows it without a       *)
(* suspension: the sweep, the test, and, when the test passes and a permit *)
(* is free, semaphore.acquire and the append.  "sleep" is the 50 ms poll,  *)
(* "sem_wait" the wait in semaphore.acquire.                               *)
(***************************************************************************)
GateStep(k, id, input_est, max_output_token, t, who) ==
    LET swept == CleanupExpired(k, t)
    IN IF ~CapacityOk(swept, input_est + max_output_token)
       THEN [st |-> swept, to |-> "sleep"]
       ELSE IF Locked(swept)
       THEN [st |-> swept, to |-> "sem_wait"]
       ELSE [st |-> AppendEstimate([swept EXCEPT !.semaphore = @ - 1],
                                   id, input_est, max_output_token, t, who),
             to |-> "admitted"]

\* semaphore.acquire returns to a waiter, which appends without a new test.
PermitStep(k, id, input_est, max_output_token, t, who) ==
    AppendEstimate([k EXCEPT !.semaphore = @ - 1], id, input_est, max_output_token, t, who)

(***************************************************************************)
(* acquire_slot.  A task's record holds the locals of the generator        *)
(* (attempt, call_id, last_exception, the RequestContext of each attempt), *)
(* what the "async with" statement of the caller has seen (handed: the     *)
(* attempt whose ctx the first yield handed over; outcome: how the         *)
(* statement ended) and a log of what the call did.                        *)
(***************************************************************************)
\* _input_tokens and _output_tokens of a context before set_result: None,
\* written as a count no call reports.
NoTokens == -1

RequestContext(attempt) ==
    [call_id |-> "PENDING", attempt |-> attempt, result |-> None,
     input_tokens |-> NoTokens, output_tokens |-> NoTokens, exited |-> FALSE]

IdleTask ==
    [pc |-> "idle", input_est |-> 0, max_output_token |-> 0, attempt |-> 0,
     call_id |-> NoId, ctxs |-> <<>>, handed |-> 0, last_exception |-> None,
     outcome |-> None, log |-> <<>>]

\* The log of a call: <<"admit", id>>, <<"run", attempt>>, <<"abort", id>>,
\* <<"sleep", seconds>>, <<"confirm", id, input_tokens, output_tokens>>, and
\* what came from outside: <<"set_result", input_tokens, output_tokens, result>>,
\* <<"returns">>, <<"raises", e>>, <<"cancelled">>, <<"estimator_raises", e>>,
\* <<"body_aborts", id>>, <<"confirm_raises", e>> for a confirm that failed,
\* and <<"for_else">> for a for loop that ran out of attempts.
Logged(t, kind) == SelectSeq(t.log, LAMBDA ev : ev[1] = kind)
Log(t, ev) == [t EXCEPT !.log = Append(@, ev)]

\* The index of the first event of that kind in the log of t, or 0.
Pos(t, kind) ==
    LET hits == {i \in DOMAIN t.log : t.log[i][1] = kind}
    IN IF hits = {} THEN 0 ELSE CHOOSE i \in hits : \A j \in hits : i <= j

ContextExited == "RuntimeError: Cannot set result after context exit!"

\* RequestContext.set_result
SetResultOf(ctx, input_tokens, output_tokens, result) ==
    IF ctx.exited
    THEN [ctx |-> ctx, err |-> ContextExited]
    ELSE [ctx |-> [ctx EXCEPT !.input_tokens = input_tokens,
                              !.output_tokens = output_tokens,
                              !.result = result],
          err |-> None]

\* RequestContext.has_result
HasResult(ctx) == ctx.result # None

\* The id wait_before_call_if_needed draws (uuid4): fresh for every admission.
FreshId(c, t) == <<c, Len(Logged(t, "admit")) + 1>>

\* The generator raises e: __aenter__ and __aexit__ pass it on to the caller.
Raise(t, e) == [t EXCEPT !.pc = "done", !.outcome = e]

CloseCtx(t) == [t EXCEPT !.ctxs[t.attempt].exited = TRUE]

\* A backoff that doubles once too often.
DoubledBackoff(attempt) == retry_config.backoff_factor * (2 ^ attempt)

\* wait_time = config.backoff_factor * (2 ** (attempt - 1))
WaitTime(attempt) == retry_config.backoff_factor * (2 ^ (attempt - 1))

\* Except clauses that take every exception for a retryable one.
RetryEveryException(k, t, e) ==
    LET held == t.call_id # NoId
        cleaned == IF held THEN CleanupCall(k, t.call_id).st ELSE k
        tc == IF held THEN Log(t, <<"abort", t.call_id>>) ELSE t
        t1 == [tc EXCEPT !.last_exception = e, !.call_id = NoId]
    IN IF ~IsException(e)
       THEN [st |-> k, t |-> Raise(t, e)]
       ELSE IF t.attempt < retry_config.max_attempts
       THEN [st |-> cleaned,
             t |-> [Log(t1, <<"sleep", WaitTime(t.attempt)>>) EXCEPT !.pc = "backoff"]]
       ELSE [st |-> cleaned, t |-> Raise(CloseCtx(t1), e)]

\* Except clauses that start the backoff of a retry with the slot of the
\* failed attempt still held.
SleepBeforeAbort(k, t, e) ==
    LET held == t.call_id # NoId
        cleaned == IF held THEN CleanupCall(k, t.call_id).st ELSE k
        tc == IF held THEN Log(t, <<"abort", t.call_id>>) ELSE t
    IN IF Matches(e, retry_config.retry_exceptions)
       THEN IF t.attempt < retry_config.max_attempts
            THEN [st |-> k,
                  t |-> [Log([t EXCEPT !.last_exception = e],
                             <<"sleep", WaitTime(t.attempt)>>)
                           EXCEPT !.pc = "backoff"]]
            ELSE [st |-> cleaned,
                  t |-> Raise(CloseCtx([tc EXCEPT !.last_exception = e,
                                                  !.call_id = NoId]), e)]
       ELSE IF IsException(e)
       THEN [st |-> cleaned, t |-> Raise(CloseCtx(tc), e)]
       ELSE [st |-> k, t |-> Raise(t, e)]

\* Except clauses that retry after the last attempt too.
RetryPastLast(k, t, e) ==
    LET held == t.call_id # NoId
        cleaned == IF held THEN CleanupCall(k, t.call_id).st ELSE k
        tc == IF held THEN Log(t, <<"abort", t.call_id>>) ELSE t
    IN IF Matches(e, retry_config.retry_exceptions)
       THEN [st |-> cleaned,
             t |-> [Log([tc EXCEPT !.last_exception = e, !.call_id = NoId],
                        <<"sleep", WaitTime(t.attempt)>>)
                      EXCEPT !.pc = "backoff"]]
       ELSE IF IsException(e)
       THEN [st |-> cleaned, t |-> Raise(CloseCtx(tc), e)]
       ELSE [st |-> k, t |-> Raise(t, e)]

\* The two except clauses of acquire_slot, for an exception e raised inside
\* the try block (thrown in at the yield, or raised by a call).
HandleException(k, t, e) ==
    LET held == t.call_id # NoId
        cleaned == IF held THEN CleanupCall(k, t.call_id).st ELSE k
        tc == IF held THEN Log(t, <<"abort", t.call_id>>) ELSE t
    IN IF Matches(e, retry_config.retry_exceptions)
       THEN LET t1 == [tc EXCEPT !.last_exception = e, !.call_id = NoId]
            IN IF t.attempt < retry_config.max_attempts
               THEN [st |-> cleaned,
                     t |-> [Log(t1, <<"sleep", WaitTime(t.attempt)>>)
                              EXCEPT !.pc = "backoff"]]
               ELSE [st |-> cleaned, t |-> Raise(CloseCtx(t1), e)]
       ELSE IF IsException(e)
       THEN [st |-> cleaned, t |-> Raise(CloseCtx(tc), e)]
       ELSE [st |-> k, t |-> Raise(t, e)]

\* The head of the for loop: the next attempt and its RequestContext, or the
\* else branch of the loop when range(1, max_attempts + 1) is used up.
NextAttempt(t) ==
    IF t.attempt + 1 <= retry_config.max_attempts
    THEN [t EXCEPT !.pc = "pending", !.attempt = @ + 1,
                   !.ctxs = Append(@, RequestContext(t.attempt + 1))]
    ELSE Raise(Log(t, <<"for_else">>),
               IF t.last_exception # None THEN t.last_exception
               ELSE UnexpectedRetryLogic)

\* "yield ctx" after an admission.  The first yield ends __aenter__ and the
\* caller's block runs; a generator that yields again inside __aexit__ makes
\* contextlib raise RuntimeError("generator didn't stop"), and the generator
\* is closed where it stands: GeneratorExit is no Exception, so neither except
\* clause runs.
Yield(t, id) ==
    LET t1 == [Log(t, <<"admit", id>>) EXCEPT !.call_id = id,
                                              !.ctxs[t.attempt].call_id = id]
    IN IF t.handed = 0
       THEN [Log(t1, <<"run", t.attempt>>) EXCEPT !.pc = "body", !.handed = t.attempt]
       ELSE Raise(t1, GeneratorDidNotStop)

SetCtl(k) ==
    /\ records' = k.records
    /\ in_flight' = k.in_flight
    /\ semaphore' = k.semaphore
    /\ tpm_counter' = k.tpm_counter
    /\ rpm_counter' = k.rpm_counter

Config == <<tpm, rpm, max_concurrent, retry_config>>
Outside == <<Config, last_call>>

(***************************************************************************)
(* The inputs of the model.                                                *)
(***************************************************************************)
InputEstimates == {1}            \* token_estimator(prompt)
MaxOutputTokens == {1}           \* max_output_token
ActualInputTokens == {1}         \* response.usage.prompt_tokens
ActualOutputTokens == {3}        \* response.usage.completion_tokens
Results == {None, "text"}        \* response.choices[0].message.content
\* What the estimator or the caller's block may raise: a provider error, and
\* an error of another class where the retry policy tells the two apart.
Raised ==
    {e \in {ProviderError, OtherError} :
        e = ProviderError \/ ~Matches(e, retry_config.retry_exceptions)}

\* Ceilings under which a second request of two tokens waits for TPM, for
\* RPM, and for a permit.
Ceilings ==
    {[tpm |-> 3, rpm |-> 5, max_concurrent |-> 2],
     [tpm |-> 9, rpm |-> 1, max_concurrent |-> 2],
     [tpm |-> 9, rpm |-> 5, max_concurrent |-> 1]}

RetryConfigs ==
    {RetryConfig(m, classes) : m \in 1..DefaultMaxAttempts,
                               classes \in {DefaultRetryExceptions, CustomRetryExceptions}}

(***************************************************************************)
(* MarkdownParser.  self.lines is the text split into lines; a line number *)
(* n of the code (from 0) is the index n + 1 of the sequence.  A regex of  *)
(* the model is a literal that matches the lines equal to it.              *)
(***************************************************************************)
PatternNotFoundError == "PatternNotFoundError"
AmbiguousPatternError == "AmbiguousPatternError"
InvalidPatternError == "InvalidPatternError"

\* The elements of a PatternSequence.
RegexAlternatives(patterns) == [type |-> "RegexAlternatives", patterns |-> patterns]
SkipExact(count) == [type |-> "SkipExact", count |-> count]
SkipRange(min_lines, max_lines) ==
    [type |-> "SkipRange", min_lines |-> min_lines, max_lines |-> max_lines]

\* _match_regex_alternatives: some regex of the element matches the line.
MatchRegexAlternatives(line, element) == \E pattern \in element.patterns : pattern = line

Least(S) == CHOOSE n \in S : \A m \in S : n <= m
Greatest(S) == CHOOSE n \in S : \A m \in S : m <= n

\* lines[a:b] of Python, for 0 <= a.
Slice(lines, a, b) ==
    LET to == IF b < Len(lines) THEN b ELSE Len(lines)
    IN IF a >= to THEN <<>> ELSE SubSeq(lines, a + 1, to)

\* What _match_at_position returns, (matched_until, _), or raises.
Matched(until) == [err |-> None, until |-> until]
NotMatched(e) == [err |-> e, until |-> -1]

(***************************************************************************)
(* _match_at_position from element i of the pattern on, at current_line.   *)
(* A SkipRange at the head of the pattern takes the first count from       *)
(* min_lines up for which the rest matches, and no line at all when the    *)
(* count runs past the text (the loop breaks and its else is skipped); at  *)
(* the tail it takes min_lines, or under "greedy" min(max_lines, remaining *)
(* lines); in the middle it takes the last count for which the rest        *)
(* matches, and the first one only under "first".  The rest is matched by  *)
(* a call of its own, in which its first element is a head.                *)
(***************************************************************************)
RECURSIVE MatchElements(_, _, _, _)
MatchElements(p, pattern, i, current_line) ==
    IF i > Len(pattern)
    THEN Matched(current_line)
    ELSE LET element == pattern[i]
             rest == SubSeq(pattern, i + 1, Len(pattern))
             Try(skip_count) == MatchElements(p, rest, 1, current_line + skip_count)
         IN IF element.type = "RegexAlternatives"
            THEN IF current_line >= Len(p.lines)
                 THEN NotMatched(PatternNotFoundError)
                 ELSE IF MatchRegexAlternatives(p.lines[current_line + 1], element)
                 THEN MatchElements(p, pattern, i + 1, current_line + 1)
                 ELSE NotMatched(PatternNotFoundError)
            ELSE IF element.type = "SkipExact"
            THEN IF current_line + element.count > Len(p.lines)
                 THEN NotMatched(PatternNotFoundError)
                 ELSE MatchElements(p, pattern, i + 1, current_line + element.count)
            ELSE IF i = 1
            THEN IF Len(pattern) = 1
                 THEN NotMatched(AmbiguousPatternError)
                 ELSE LET stop == {s \in element.min_lines..element.max_lines :
                                      \/ current_line + s >= Len(p.lines)
                                      \/ Try(s).err # PatternNotFoundError}
                      IN IF stop = {}
                         THEN NotMatched(PatternNotFoundError)
                         ELSE IF current_line + Least(stop) >= Len(p.lines)
                         THEN MatchElements(p, pattern, i + 1, current_line)
                         ELSE IF Try(Least(stop)).err = None
                         THEN MatchElements(p, pattern, i + 1, current_line + Least(stop))
                         ELSE Try(Least(stop))
            ELSE IF i = Len(pattern)
            THEN LET remaining_lines == Len(p.lines) - current_line
                     skip_count ==
                         IF p.strategy = "greedy"
                         THEN IF element.max_lines < remaining_lines
                              THEN element.max_lines ELSE remaining_lines
                         ELSE element.min_lines
                 IN MatchElements(p, pattern, i + 1, current_line + skip_count)
            ELSE LET tried == {s \in element.min_lines..element.max_lines :
                                  current_line + s < Len(p.lines)}
                     raised == {s \in tried : Try(s).err \notin {None, PatternNotFoundError}}
                     fits == {s \in tried : Try(s).err = None}
                 IN IF p.strategy = "first"
                    THEN IF fits \cup raised = {}
                         THEN NotMatched(PatternNotFoundError)
                         ELSE IF Least(fits \cup raised) \in fits
                         THEN MatchElements(p, pattern, i + 1,
                                            current_line + Least(fits \cup raised))
                         ELSE Try(Least(raised))
                    ELSE IF raised # {}
                    THEN Try(Least(raised))
                    ELSE IF fits = {}
                    THEN NotMatched(PatternNotFoundError)
                    ELSE MatchElements(p, pattern, i + 1, current_line + Greatest(fits))

MatchAtPosition(p, start_line, pattern) == MatchElements(p, pattern, 1, start_line)

\* The while loops of extract_between: the first line from start_line on at
\* which the marker matches; line = -1 when the loop reaches the end of the
\* text; an error other than PatternNotFoundError leaves the loop.
SearchMarker(p, start_line, marker) ==
    LET stop == {n \in start_line..(Len(p.lines) - 1) :
                    MatchAtPosition(p, n, marker).err # PatternNotFoundError}
    IN IF stop = {}
       THEN [err |-> None, line |-> -1, until |-> -1]
       ELSE [err |-> MatchAtPosition(p, Least(stop), marker).err,
             line |-> Least(stop),
             until |-> MatchAtPosition(p, Least(stop), marker).until]

\* What extract_between returns, (end_cursor, content), or raises.
Extracted(end_cursor, content) == [err |-> None, end_cursor |-> end_cursor, content |-> content]
ExtractRaises(e) == [err |-> e, end_cursor |-> -1, content |-> <<>>]

\* "except Exception as e": raised again if must_exist, else (self.cursor, []).
ExtractFails(p, e, must_exist) ==
    IF must_exist THEN ExtractRaises(e) ELSE Extracted(p.cursor, <<>>)

\* extract_between.  The search for the end marker starts at the first line
\* of the start marker when inclusive, after its last line otherwise; the
\* content starts after the start marker in both cases.
ExtractBetween(p, start_marker, end_marker, inclusive, must_exist) ==
    IF start_marker = <<>> \/ end_marker = <<>>
    THEN ExtractRaises(InvalidPatternError)
    ELSE LET start == SearchMarker(p, p.cursor, start_marker)
             search_start == IF inclusive THEN start.line ELSE start.until
             end == SearchMarker(p, search_start, end_marker)
         IN IF start.err # None THEN ExtractFails(p, start.err, must_exist)
            ELSE IF start.line = -1 THEN ExtractFails(p, PatternNotFoundError, must_exist)
            ELSE IF end.err # None THEN ExtractFails(p, end.err, must_exist)
            ELSE IF end.line = -1
            THEN IF must_exist
                 THEN ExtractRaises(PatternNotFoundError)
                 ELSE Extracted(Len(p.lines), Slice(p.lines, search_start, Len(p.lines)))
            ELSE IF inclusive
            THEN Extracted(end.until, Slice(p.lines, start.until, end.until))
            ELSE Extracted(end.until, Slice(p.lines, search_start, end.line))

\* No parser, and no call of one.
NoParser == [lines |-> <<>>, cursor |-> 0, strategy |-> "lazy"]
NoReturn == [op |-> None, args |-> <<>>, err |-> None, end_cursor |-> 0, content |-> <<>>]

NoCall == [op |-> None, id |-> NoId, err |-> None, repeated |-> FALSE]

InitController(ceilings) ==
    /\ tpm = ceilings.tpm
    /\ rpm = ceilings.rpm
    /\ max_concurrent = ceilings.max_concurrent
    /\ records = <<>>
    /\ in_flight = <<>>
    /\ semaphore = ceilings.max_concurrent
    /\ lock = Free
    /\ tpm_counter = 0
    /\ rpm_counter = 0
    /\ now = 0
    /\ last_call = NoCall
    /\ parser = NoParser
    /\ returned = NoReturn

Init ==
    /\ \E ceilings \in Ceilings : InitController(ceilings)
    /\ retry_config \in RetryConfigs
    /\ task = [c \in Callers |-> IdleTask]

\* wait_before_call_if_needed up to _wait_for_capacity: token_estimate returns.
Estimated(t) == IF t.pc = "pending" THEN [t EXCEPT !.pc = "gate"] ELSE t

\* async with controller.acquire_slot(prompt, max_output_token) as ctx:
\* the first attempt begins.
AcquireSlot(c) ==
    /\ task[c].pc = "idle"
    /\ \E e \in InputEstimates, m \in MaxOutputTokens :
          task' = [task EXCEPT ![c] =
                      Estimated(NextAttempt([@ EXCEPT !.input_est = e,
                                                      !.max_output_token = m]))]
    /\ UNCHANGED <<Outside, parser, returned, lock, records, in_flight, semaphore, tpm_counter, rpm_counter, now>>

\* await asyncio.sleep(wait_time) returns: the for loop goes on.
BackoffEnds(c) ==
    /\ task[c].pc = "backoff"
    /\ task' = [task EXCEPT ![c] = Estimated(NextAttempt(@))]
    /\ UNCHANGED <<Outside, parser, returned, lock, records, in_flight, semaphore, tpm_counter, rpm_counter, now>>

\* An attempt begins and the pluggable token_estimator raises in
\* wait_before_call_if_needed.
EstimatorRaises(c) ==
    /\ task[c].pc \in {"idle", "backoff"}
    /\ \E i \in InputEstimates, m \in MaxOutputTokens, e \in Raised :
          LET t0 == IF task[c].pc = "idle"
                    THEN [task[c] EXCEPT !.input_est = i, !.max_output_token = m]
                    ELSE task[c]
              t1 == NextAttempt(t0)
              h == IF t1.pc = "pending"
                   THEN HandleException(Ctl, Log(t1, <<"estimator_raises", e>>), e)
                   ELSE [st |-> Ctl, t |-> t1]
          IN SetCtl(h.st) /\ task' = [task EXCEPT ![c] = h.t]
    /\ UNCHANGED <<Outside, parser, returned, lock, now>>

\* wait_before_call_if_needed returns call_id to a task that called it itself.
Returned(t, id) == [Log(t, <<"admit", id>>) EXCEPT !.pc = "idle", !.call_id = id]

\* wait_before_call_if_needed returns call_id: to acquire_slot, which yields the
\* context of the slot, or to a task that called it itself.
Return(t, id, caller) == IF caller = "acquire_slot" THEN Yield(t, id) ELSE Returned(t, id)

\* One poll of _wait_for_capacity by task c, up to the next suspension;
\* Return(t, id, caller) is what the caller of wait_before_call_if_needed does
\* with the id it returns.
Poll(c, caller) ==
    /\ task[c].pc = "gate"
    /\ LET t == task[c]
           id == FreshId(c, t)
           g == GateStep(Ctl, id, t.input_est, t.max_output_token, now, c)
       IN /\ SetCtl(g.st)
          /\ task' = [task EXCEPT ![c] =
                         IF g.to = "admitted" THEN Return(t, id, caller)
                         ELSE IF g.to = "sem_wait" THEN [t EXCEPT !.pc = "sem_wait"]
                         ELSE t]
    /\ UNCHANGED <<Outside, parser, returned, lock, now>>

\* await self.semaphore.acquire() returns to task c, which waited for a permit.
Acquire(c, caller) ==
    /\ task[c].pc = "sem_wait"
    /\ semaphore > 0
    /\ LET t == task[c]
           id == FreshId(c, t)
       IN /\ SetCtl(PermitStep(Ctl, id, t.input_est, t.max_output_token, now, c))
          /\ task' = [task EXCEPT ![c] = Return(t, id, caller)]
    /\ UNCHANGED <<Outside, parser, returned, lock, now>>

\* The two in acquire_slot, which yields the context of the admitted slot.
Gate(c) == Poll(c, "acquire_slot")
Permit(c) == Acquire(c, "acquire_slot")

\* The generator resumed after the yield by a block that ended normally:
\* the has_result test, wait_after_call_if_needed, break.
AfterYield(k, t, at) ==
    LET ctx == t.ctxs[t.attempt]
    IN IF ~HasResult(ctx)
       THEN HandleException(k, t, ResultNotSet)
       ELSE LET r == WaitAfterCall(k, t.call_id, ctx.input_tokens, ctx.output_tokens, at)
            IN IF r.err # None
               THEN HandleException(r.st, Log(t, <<"confirm_raises", r.err>>), r.err)
               ELSE [st |-> r.st,
                     t |-> [CloseCtx(Log(t, <<"confirm", t.call_id, ctx.input_tokens,
                                              ctx.output_tokens>>))
                              EXCEPT !.pc = "done", !.outcome = "ok"]]

\* The caller's block calls ctx.set_result(...) on the context it was handed
\* and ends normally: __aexit__ resumes the generator.
SetResultIn(c, results) ==
    /\ task[c].pc = "body"
    /\ \E i \in ActualInputTokens, o \in ActualOutputTokens, r \in results :
          LET t == task[c]
              s == SetResultOf(t.ctxs[t.handed], i, o, r)
              h == IF s.err = None
                   THEN AfterYield(Ctl, Log([Log(t, <<"set_result", i, o, r>>)
                                             EXCEPT !.ctxs[t.handed] = s.ctx],
                                            <<"returns">>), now)
                   ELSE HandleException(Ctl, Log(t, <<"raises", s.err>>), s.err)
          IN SetCtl(h.st) /\ task' = [task EXCEPT ![c] = h.t]
    /\ UNCHANGED <<Outside, parser, returned, lock, now>>

SetResult(c) == SetResultIn(c, Results)

\* The caller's block ends normally and has not called ctx.set_result.
BodyReturns(c) ==
    /\ task[c].pc = "body"
    /\ LET h == AfterYield(Ctl, Log(task[c], <<"returns">>), now)
       IN SetCtl(h.st) /\ task' = [task EXCEPT ![c] = h.t]
    /\ UNCHANGED <<Outside, parser, returned, lock, now>>

\* The caller's block raises: __aexit__ throws the exception in at the yield.
BodyRaises(c) ==
    /\ task[c].pc = "body"
    /\ \E e \in Raised :
          LET h == HandleException(Ctl, Log(task[c], <<"raises", e>>), e)
          IN SetCtl(h.st) /\ task' = [task EXCEPT ![c] = h.t]
    /\ UNCHANGED <<Outside, parser, returned, lock, now>>

\* The caller's block calls controller.cleanup_call(ctx.call_id) itself and
\* goes on.
BodyCleansUp(c) ==
    /\ task[c].pc = "body"
    /\ task[c].call_id \in DOMAIN in_flight
    /\ SetCtl(CleanupCall(Ctl, task[c].call_id).st)
    /\ task' = [task EXCEPT ![c] = Log(@, <<"body_aborts", @.call_id>>)]
    /\ UNCHANGED <<Outside, parser, returned, lock, now>>

Suspended == {"gate", "sem_wait", "body", "backoff"}

\* task.cancel(): CancelledError is raised at the await the task is suspended in.
Cancel(c) ==
    /\ task[c].pc \in Suspended
    /\ LET h == HandleException(Ctl, Log(task[c], <<"cancelled">>), Cancelled)
       IN SetCtl(h.st) /\ task' = [task EXCEPT ![c] = h.t]
    /\ UNCHANGED <<Outside, parser, returned, lock, now>>

\* time.monotonic() advances by d seconds.
Advance(d) ==
    /\ now + d <= MaxTicks * TickSeconds
    /\ now' = now + d
    /\ UNCHANGED <<Outside, parser, returned, lock, records, in_flight, semaphore, tpm_counter, rpm_counter, task>>

\* A tick of the clock, and a step of it that outlasts the window.
Tick == Advance(TickSeconds)
WindowPasses == Advance(Window + 1)

\* A step of the task that runs acquire_slot.
Step(c) ==
    \/ AcquireSlot(c)
    \/ EstimatorRaises(c)
    \/ Gate(c)
    \/ Permit(c)
    \/ SetResult(c)
    \/ BodyReturns(c)
    \/ BodyRaises(c)
    \/ Cancel(c)
    \/ BackoffEnds(c)

Next ==
    \/ \E c \in Callers : Step(c) \/ BodyCleansUp(c)
    \/ WindowPasses

Spec == Init /\ [][Next]_vars

(***************************************************************************)
(* Three callers and two permits, under ceilings of TPM and RPM that none  *)
(* of them reaches: only the permit pool holds a caller back.              *)
(***************************************************************************)
PermitCallers == 1..NumPermitCallers

InitPermits ==
    /\ InitController([tpm |-> 20, rpm |-> 9, max_concurrent |-> NumPermitCallers - 1])
    /\ retry_config = RetryConfig(DefaultMaxAttempts, DefaultRetryExceptions)
    /\ task = [c \in PermitCallers |-> IdleTask]

NextPermits == \E c \in PermitCallers : Step(c)

SpecPermits == InitPermits /\ [][NextPermits]_vars

(***************************************************************************)
(* The low-level API: tasks that call wait_before_call_if_needed           *)
(* themselves, one call each, and calls of wait_after_call_if_needed and   *)
(* cleanup_call with any id a call has returned, or with an id that no     *)
(* call has returned.                                                      *)
(***************************************************************************)
UnknownId == <<0, 0>>

WaitBeforeCall(c, estimates, outputs) ==
    /\ task[c].pc = "idle"
    /\ task[c].call_id = NoId
    /\ \E e \in estimates, m \in outputs :
          task' = [task EXCEPT ![c] = [@ EXCEPT !.pc = "gate", !.input_est = e,
                                                !.max_output_token = m]]
    /\ UNCHANGED <<Outside, parser, returned, lock, records, in_flight, semaphore, tpm_counter, rpm_counter, now>>

WaitGate(c) == Poll(c, "task")
WaitPermit(c) == Acquire(c, "task")

\* The task is cancelled while wait_before_call_if_needed is suspended.
WaitCancelled(c) ==
    /\ task[c].pc \in {"gate", "sem_wait"}
    /\ task' = [task EXCEPT ![c] = Raise(Log(@, <<"cancelled">>), Cancelled)]
    /\ UNCHANGED <<Outside, parser, returned, lock, records, in_flight, semaphore, tpm_counter, rpm_counter, now>>

KnownIds == ({task[c].call_id : c \in DOMAIN task} \ {NoId}) \cup {UnknownId}

Called(op, id, err) ==
    [op |-> op, id |-> id, err |-> err,
     repeated |-> last_call.op = op /\ last_call.id = id]

\* await controller.wait_after_call_if_needed(id, i, o)
Confirm(actual_inputs, actual_outputs) ==
    /\ \E id \in KnownIds, i \in actual_inputs, o \in actual_outputs :
          LET r == WaitAfterCall(Ctl, id, i, o, now)
          IN SetCtl(r.st) /\ last_call' = Called("wait_after_call_if_needed", id, r.err)
    /\ UNCHANGED <<Config, parser, returned, lock, now, task>>

\* await controller.cleanup_call(id)
Abort ==
    /\ \E id \in KnownIds :
          LET r == CleanupCall(Ctl, id)
          IN SetCtl(r.st) /\ last_call' = Called("cleanup_call", id, r.err)
    /\ UNCHANGED <<Config, parser, returned, lock, now, task>>

LowCeilings ==
    {[tpm |-> 4, rpm |-> 2, max_concurrent |-> 1],
     [tpm |-> 9, rpm |-> 5, max_concurrent |-> 2]}

LowActualOutputTokens == {0, 3}

InitLow ==
    /\ \E ceilings \in LowCeilings : InitController(ceilings)
    /\ retry_config = RetryConfig(DefaultMaxAttempts, DefaultRetryExceptions)
    /\ task = [c \in Clients |-> IdleTask]

NextLow ==
    \/ \E c \in Clients :
          \/ WaitBeforeCall(c, InputEstimates, MaxOutputTokens)
          \/ WaitGate(c)
          \/ WaitPermit(c)
          \/ WaitCancelled(c)
    \/ Confirm(ActualInputTokens, LowActualOutputTokens)
    \/ Abort
    \/ Tick

SpecLow == InitLow /\ [][NextLow]_vars

(***************************************************************************)
(* A queue for one permit: clients of the low-level API whose calls are    *)
(* confirmed with exactly the tokens of the estimate.  No time passes.     *)
(***************************************************************************)
QueueClients == 1..NumQueueClients

QueueCeilings ==
    {[tpm |-> 4, rpm |-> 9, max_concurrent |-> 1],
     [tpm |-> 9, rpm |-> 2, max_concurrent |-> 1]}

InitQueue ==
    /\ \E ceilings \in QueueCeilings : InitController(ceilings)
    /\ retry_config = RetryConfig(DefaultMaxAttempts, DefaultRetryExceptions)
    /\ task = [c \in QueueClients |-> IdleTask]

NextQueue ==
    \/ \E c \in QueueClients :
          \/ WaitBeforeCall(c, InputEstimates, MaxOutputTokens)
          \/ WaitGate(c)
          \/ WaitPermit(c)
    \/ Confirm(InputEstimates, MaxOutputTokens)

SpecQueue == InitQueue /\ [][NextQueue]_vars

(***************************************************************************)
(* The burst of the strict fixture: tpm=1000, rpm=20, max_concurrent=20,   *)
(* every request of 100 tokens (BurstRequest), none confirmed or aborted.  *)
(* The callers are alike; all but the last BurstFree of them               *)
(* make their call in the order the tasks were created, the last BurstFree *)
(* at any moment and in any order.                                         *)
(***************************************************************************)
BurstCallers == 1..NumBurst

StrictCeilings == [tpm |-> 1000, rpm |-> 20, max_concurrent |-> 20]

\* A request of 100 tokens: the estimate of the input plus max_output_token.
BurstRequest == [input_est |-> 50, max_output_token |-> 50]

InitBurst ==
    /\ InitController(StrictCeilings)
    /\ retry_config = RetryConfig(DefaultMaxAttempts, DefaultRetryExceptions)
    /\ task = [c \in BurstCallers |-> IdleTask]

\* wait_before_call_if_needed up to its first suspension: the first test of
\* the gate follows the call at once.
BurstCall(c) ==
    /\ task[c].pc = "idle"
    /\ task[c].call_id = NoId
    /\ IF c = 1 \/ c > NumBurst - BurstFree
       THEN TRUE
       ELSE task[c - 1].pc # "idle" \/ task[c - 1].call_id # NoId
    /\ LET t == [task[c] EXCEPT !.input_est = BurstRequest.input_est,
                                 !.max_output_token = BurstRequest.max_output_token]
           id == FreshId(c, t)
           g == GateStep(Ctl, id, t.input_est, t.max_output_token, now, c)
       IN /\ SetCtl(g.st)
          /\ task' = [task EXCEPT ![c] =
                         IF g.to = "admitted" THEN Returned(t, id)
                         ELSE IF g.to = "sem_wait" THEN [t EXCEPT !.pc = "sem_wait"]
                         ELSE [t EXCEPT !.pc = "gate"]]
    /\ UNCHANGED <<Outside, parser, returned, lock, now>>

NextBurst == \E c \in BurstCallers : BurstCall(c) \/ WaitGate(c)

SpecBurst == InitBurst /\ [][NextBurst]_vars

(***************************************************************************)
(* One call of acquire_slot under retry policies of up to MaxAttempts      *)
(* attempts and of more than one backoff_factor.                           *)
(***************************************************************************)
RetryCallers == 1..NumRetryCallers

BackoffFactors == {BackoffFactor, 3}

LongRetryConfigs ==
    {[RetryConfig(m, classes) EXCEPT !.backoff_factor = b] :
        m \in 1..MaxAttempts, b \in BackoffFactors,
        classes \in {DefaultRetryExceptions, CustomRetryExceptions}}

InitRetry ==
    /\ InitController([tpm |-> 9, rpm |-> 5, max_concurrent |-> 2])
    /\ retry_config \in LongRetryConfigs
    /\ task = [c \in RetryCallers |-> IdleTask]

NextRetry ==
    \E c \in RetryCallers :
        \/ AcquireSlot(c)
        \/ EstimatorRaises(c)
        \/ Gate(c)
        \/ SetResult(c)
        \/ BodyReturns(c)
        \/ BodyRaises(c)
        \/ Cancel(c)
        \/ BackoffEnds(c)

SpecRetry == InitRetry /\ [][NextRetry]_vars

\* The event loop runs the task whenever it is ready: the admission returns,
\* the unit of work ends, the sleeps end.
SpecRetryLive == SpecRetry /\ WF_vars(NextRetry)

(***************************************************************************)
(* The default estimator: tasks that call wait_before_call_if_needed with  *)
(* prompts of 0 to MaxPromptLen characters under ceilings none reaches.  A *)
(* prompt is its length, which is all the estimator reads.                 *)
(***************************************************************************)
Max(a, b) == IF a >= b THEN a ELSE b

\* _default_estimator: max(1, len(prompt) // 4 + 10)
DefaultEstimator(len) == Max(1, (len \div 4) + 10)

PromptLengths == 0..MaxPromptLen

EstimateClients == 1..NumEstimateClients

InitEstimate ==
    /\ InitController([tpm |-> 100, rpm |-> 9, max_concurrent |-> NumEstimateClients])
    /\ retry_config = RetryConfig(DefaultMaxAttempts, DefaultRetryExceptions)
    /\ task = [c \in EstimateClients |-> IdleTask]

\* wait_before_call_if_needed(prompt, max_output_token) up to the gate:
\* input_est = await self.token_estimate(prompt)
CallWithPrompt(c) ==
    /\ task[c].pc = "idle"
    /\ task[c].call_id = NoId
    /\ \E len \in PromptLengths, m \in {1, 2} :
          task' = [task EXCEPT ![c] =
                      [Log(@, <<"prompt", len>>) EXCEPT !.pc = "gate",
                                                        !.input_est = DefaultEstimator(len),
                                                        !.max_output_token = m]]
    /\ UNCHANGED <<Outside, parser, returned, lock, records, in_flight, semaphore, tpm_counter, rpm_counter, now>>

NextEstimate == \E c \in EstimateClients : CallWithPrompt(c) \/ WaitGate(c)

SpecEstimate == InitEstimate /\ [][NextEstimate]_vars

(***************************************************************************)
(* The capacity gate at its ceilings: clients of the low-level API, more   *)
(* than RPM admits in one window, requests of two tokens under a TPM       *)
(* ceiling that a confirmed call of four tokens and one estimate fill      *)
(* exactly; and a pool of one permit, for the wait that follows the gate.  *)
(***************************************************************************)
GateClients == 1..NumGateClients

GateCeilings ==
    {[tpm |-> 6, rpm |-> 2, max_concurrent |-> NumGateClients],
     [tpm |-> 9, rpm |-> 5, max_concurrent |-> 1]}

InitGate ==
    /\ \E ceilings \in GateCeilings : InitController(ceilings)
    /\ retry_config = RetryConfig(DefaultMaxAttempts, DefaultRetryExceptions)
    /\ task = [c \in GateClients |-> IdleTask]

NextGate ==
    \/ \E c \in GateClients :
          \/ WaitBeforeCall(c, InputEstimates, MaxOutputTokens)
          \/ WaitGate(c)
          \/ WaitPermit(c)
    \/ Confirm(ActualInputTokens, ActualOutputTokens)
    \/ Abort
    \/ Tick

SpecGate == InitGate /\ [][NextGate]_vars

(***************************************************************************)
(* The RequestContext in the hands of the caller: a block that calls       *)
(* ctx.set_result up to MaxSetResults times before it returns or raises,   *)
(* and a caller that keeps ctx and calls set_result on it once more after  *)
(* the "async with" statement has ended.                                   *)
(***************************************************************************)
ContextCallers == 1..NumContextCallers

InitContext ==
    /\ InitController([tpm |-> 9, rpm |-> 5, max_concurrent |-> 2])
    /\ retry_config \in RetryConfigs
    /\ task = [c \in ContextCallers |-> IdleTask]

\* What a call of set_result passes: token counts and a result.
SetResultArgs == {<<1, 3, "text">>, <<2, 5, "other text">>}

\* ctx.set_result(...) inside the block, which goes on.
BodySetsResult(c) ==
    /\ task[c].pc = "body"
    /\ Len(Logged(task[c], "set_result")) < MaxSetResults
    /\ \E a \in SetResultArgs :
          LET t == task[c]
              s == SetResultOf(t.ctxs[t.handed], a[1], a[2], a[3])
          IN task' = [task EXCEPT ![c] =
                         [Log(t, <<"set_result", a[1], a[2], a[3]>>)
                            EXCEPT !.ctxs[t.handed] = s.ctx]]
    /\ UNCHANGED <<Outside, parser, returned, lock, records, in_flight, semaphore, tpm_counter, rpm_counter, now>>

\* ctx.set_result(...) after the "async with" statement has ended: the fault
\* of a closed context reaches the caller, an open one stores the values.
LateSetResult(c) ==
    /\ task[c].pc = "done"
    /\ task[c].handed # 0
    /\ Pos(task[c], "late_set_result") = 0
    /\ \E a \in SetResultArgs :
          LET t == task[c]
              s == SetResultOf(t.ctxs[t.handed], a[1], a[2], a[3])
          IN task' = [task EXCEPT ![c] =
                         [Log(t, <<"late_set_result", s.err>>)
                            EXCEPT !.ctxs[t.handed] = s.ctx]]
    /\ UNCHANGED <<Outside, parser, returned, lock, records, in_flight, semaphore, tpm_counter, rpm_counter, now>>

NextContext ==
    \E c \in ContextCallers :
        \/ AcquireSlot(c)
        \/ Gate(c)
        \/ BodySetsResult(c)
        \/ BodyReturns(c)
        \/ BodyRaises(c)
        \/ LateSetResult(c)

SpecContext == InitContext /\ [][NextContext]_vars

(***************************************************************************)
(* The ledger lock, statement by statement.  A task runs from one          *)
(* suspension to the next and no other task runs meanwhile; each "async    *)
(* with self.lock" is a step that takes the lock (or suspends in           *)
(* lock.acquire when it is held) and a step that runs the block and leaves *)
(* it.  The callers use acquire_slot; a block returns with a result or     *)
(* raises a provider error.                                                *)
(***************************************************************************)
LockCallers == 1..NumLockCallers

\* Where a task stands before an "async with self.lock", inside one, and
\* suspended in lock.acquire.
LockEntries == {"sweep", "test", "append", "confirm", "cleanup"}
Inside(entry) == "in_" \o entry
Waiting(entry) == "wait_" \o entry
InCritical == {Inside(e) : e \in LockEntries}

\* The awaits a task is suspended in, and the ends of its run.
SuspendedAt ==
    {"idle", "sleep", "sem_wait", "body", "backoff", "done"}
        \cup {Waiting(e) : e \in LockEntries}

\* The event loop resumes a task only when no other task is running.
NoneRunning == \A c \in DOMAIN task : task[c].pc \in SuspendedAt

\* Ceilings under which a second request waits in the gate, waits for a
\* permit, and runs beside the first.
LockCeilings ==
    {[tpm |-> 3, rpm |-> 5, max_concurrent |-> 2],
     [tpm |-> 9, rpm |-> 5, max_concurrent |-> 1],
     [tpm |-> 9, rpm |-> 5, max_concurrent |-> 2]}

InitLock ==
    /\ \E ceilings \in LockCeilings : InitController(ceilings)
    /\ retry_config \in {RetryConfig(m, DefaultRetryExceptions) : m \in 1..2}
    /\ task = [c \in LockCallers |-> IdleTask]

Ledger == <<records, in_flight, semaphore, tpm_counter, rpm_counter>>

\* The head of the for loop and wait_before_call_if_needed up to the first
\* "async with self.lock", that of _cleanup_expired.
ToSweep(t) == [NextAttempt(t) EXCEPT !.pc = "sweep"]

Begin(c) ==
    /\ NoneRunning
    /\ task[c].pc = "idle"
    /\ \E e \in InputEstimates, m \in MaxOutputTokens :
          task' = [task EXCEPT ![c] = ToSweep([@ EXCEPT !.input_est = e,
                                                        !.max_output_token = m])]
    /\ UNCHANGED <<Outside, parser, returned, lock, Ledger, now>>

\* async with self.lock: the running task takes the lock if it is free and
\* suspends in lock.acquire if it is not; a task suspended there takes the
\* lock once it is free.
LockEnter(c) ==
    /\ \E e \in LockEntries :
          \/ /\ task[c].pc = e
             /\ IF lock = Free
                THEN lock' = c /\ task' = [task EXCEPT ![c].pc = Inside(e)]
                ELSE lock' = lock /\ task' = [task EXCEPT ![c].pc = Waiting(e)]
          \/ /\ task[c].pc = Waiting(e)
             /\ NoneRunning
             /\ lock = Free
             /\ lock' = c
             /\ task' = [task EXCEPT ![c].pc = Inside(e)]
    /\ UNCHANGED <<Outside, parser, returned, Ledger, now>>

\* The block of _cleanup_expired, and its exit.
SweepUnderLock(c) ==
    /\ task[c].pc = Inside("sweep")
    /\ SetCtl(CleanupExpired(Ctl, now))
    /\ lock' = Free
    /\ task' = [task EXCEPT ![c].pc = "test"]
    /\ UNCHANGED <<Outside, parser, returned, now>>

\* A gate that sleeps its poll interval inside the block of the lock.
SleepsInsideLock(c, ok) ==
    [lock |-> IF ok THEN Free ELSE c, pc |-> IF ok THEN "acquire" ELSE "sleep"]

\* The block of _wait_for_capacity: "return" leaves the block and the loop,
\* the end of the block leads to "await asyncio.sleep(0.05)".
AfterTest(c, ok) ==
    [lock |-> Free, pc |-> IF ok THEN "acquire" ELSE "sleep"]

TestUnderLock(c) ==
    /\ task[c].pc = Inside("test")
    /\ LET t == task[c]
           a == AfterTest(c, CapacityOk(Ctl, t.input_est + t.max_output_token))
       IN /\ lock' = a.lock
          /\ task' = [task EXCEPT ![c].pc = a.pc]
    /\ UNCHANGED <<Outside, parser, returned, Ledger, now>>

\* await asyncio.sleep(0.05) returns: the next iteration of the gate.
PollSleepEnds(c) ==
    /\ NoneRunning
    /\ task[c].pc = "sleep"
    /\ task' = [task EXCEPT ![c].pc = "sweep"]
    /\ UNCHANGED <<Outside, parser, returned, lock, Ledger, now>>

\* await self.semaphore.acquire(): at once, or after a wait for a release.
SemaphoreAcquire(c) ==
    /\ \/ task[c].pc = "acquire" /\ ~Locked(Ctl)
       \/ task[c].pc = "sem_wait" /\ NoneRunning /\ semaphore > 0
    /\ semaphore' = semaphore - 1
    /\ task' = [task EXCEPT ![c].pc = "append"]
    /\ UNCHANGED <<Outside, parser, returned, lock, records, in_flight, tpm_counter, rpm_counter, now>>

SemaphoreWait(c) ==
    /\ task[c].pc = "acquire"
    /\ Locked(Ctl)
    /\ task' = [task EXCEPT ![c].pc = "sem_wait"]
    /\ UNCHANGED <<Outside, parser, returned, lock, Ledger, now>>

\* The block that appends the estimate; wait_before_call_if_needed returns
\* and acquire_slot yields the context.
AppendUnderLock(c) ==
    /\ task[c].pc = Inside("append")
    /\ LET t == task[c]
           id == FreshId(c, t)
       IN /\ SetCtl(AppendEstimate(Ctl, id, t.input_est, t.max_output_token, now, c))
          /\ task' = [task EXCEPT ![c] = Yield(t, id)]
    /\ lock' = Free
    /\ UNCHANGED <<Outside, parser, returned, now>>

\* The caller's block sets a result and returns: has_result holds and the
\* generator goes on to wait_after_call_if_needed.
BlockReturns(c) ==
    /\ NoneRunning
    /\ task[c].pc = "body"
    /\ \E i \in ActualInputTokens, o \in ActualOutputTokens :
          LET t == task[c]
              s == SetResultOf(t.ctxs[t.handed], i, o, "text")
          IN task' = [task EXCEPT ![c] =
                         [Log(Log(t, <<"set_result", i, o, "text">>), <<"returns">>)
                            EXCEPT !.ctxs[t.handed] = s.ctx, !.pc = "confirm"]]
    /\ UNCHANGED <<Outside, parser, returned, lock, Ledger, now>>

\* The caller's block raises a provider error: "except config.retry_exceptions"
\* goes on to cleanup_call.
BlockRaises(c) ==
    /\ NoneRunning
    /\ task[c].pc = "body"
    /\ task' = [task EXCEPT ![c] =
                   [Log(@, <<"raises", ProviderError>>)
                      EXCEPT !.last_exception = ProviderError, !.pc = "cleanup"]]
    /\ UNCHANGED <<Outside, parser, returned, lock, Ledger, now>>

\* The block of wait_after_call_if_needed, semaphore.release, break.
ConfirmUnderLock(c) ==
    /\ task[c].pc = Inside("confirm")
    /\ LET t == task[c]
           ctx == t.ctxs[t.attempt]
           r == WaitAfterCall(Ctl, t.call_id, ctx.input_tokens, ctx.output_tokens, now)
       IN /\ SetCtl(r.st)
          /\ task' = [task EXCEPT ![c] =
                         [CloseCtx(Log(t, <<"confirm", t.call_id, ctx.input_tokens,
                                           ctx.output_tokens>>))
                            EXCEPT !.pc = "done",
                                   !.outcome = IF r.err = None THEN "ok" ELSE r.err]]
    /\ lock' = Free
    /\ UNCHANGED <<Outside, parser, returned, now>>

\* The block of cleanup_call and the release that follows it; then the
\* backoff sleep, or "raise" on the last attempt.
CleanupUnderLock(c) ==
    /\ task[c].pc = Inside("cleanup")
    /\ LET t == task[c]
           t1 == [Log(t, <<"abort", t.call_id>>) EXCEPT !.call_id = NoId]
       IN /\ SetCtl(CleanupCall(Ctl, t.call_id).st)
          /\ task' = [task EXCEPT ![c] =
                         IF t.attempt < retry_config.max_attempts
                         THEN [Log(t1, <<"sleep", WaitTime(t.attempt)>>)
                                 EXCEPT !.pc = "backoff"]
                         ELSE Raise(CloseCtx(t1), t.last_exception)]
    /\ lock' = Free
    /\ UNCHANGED <<Outside, parser, returned, now>>

\* await asyncio.sleep(wait_time) returns: the next attempt.
BackoffSleepEnds(c) ==
    /\ NoneRunning
    /\ task[c].pc = "backoff"
    /\ task' = [task EXCEPT ![c] = ToSweep(@)]
    /\ UNCHANGED <<Outside, parser, returned, lock, Ledger, now>>

NextLock ==
    \E c \in LockCallers :
        \/ Begin(c)
        \/ LockEnter(c)
        \/ SweepUnderLock(c)
        \/ TestUnderLock(c)
        \/ PollSleepEnds(c)
        \/ SemaphoreAcquire(c)
        \/ SemaphoreWait(c)
        \/ AppendUnderLock(c)
        \/ BlockReturns(c)
        \/ BlockRaises(c)
        \/ ConfirmUnderLock(c)
        \/ CleanupUnderLock(c)
        \/ BackoffSleepEnds(c)

SpecLock == InitLock /\ [][NextLock]_vars

(***************************************************************************)
(* Requests of different sizes at one gate, under tpm = 6: task 1 asks for *)
(* 6 tokens, task 2 for 8, more than the ceiling, every other task for 2.  *)
(* Each task calls wait_before_call_if_needed once; the log of the task    *)
(* holds the rank of its call among the calls.                             *)
(***************************************************************************)
SizeClients == 1..NumSizeClients

SizeCeilings == [tpm |-> 6, rpm |-> 5, max_concurrent |-> 1]

SizeRequest(c) ==
    IF c = 1 THEN [input_est |-> 3, max_output_token |-> 3]
    ELSE IF c = 2 THEN [input_est |-> 4, max_output_token |-> 4]
    ELSE [input_est |-> 1, max_output_token |-> 1]

InitSizes ==
    /\ InitController(SizeCeilings)
    /\ retry_config = RetryConfig(DefaultMaxAttempts, DefaultRetryExceptions)
    /\ task = [c \in SizeClients |-> IdleTask]

\* wait_before_call_if_needed(prompt, max_output_token) is called by task c
\* and enters _wait_for_capacity.
Arrive(c) ==
    /\ task[c].pc = "idle"
    /\ Arrival(task[c]) = 0
    /\ LET rank == 1 + Cardinality({d \in SizeClients : Arrival(task[d]) > 0})
       IN task' = [task EXCEPT ![c] =
                      [Log(@, <<"arrive", rank>>) EXCEPT
                          !.pc = "gate",
                          !.input_est = SizeRequest(c).input_est,
                          !.max_output_token = SizeRequest(c).max_output_token]]
    /\ UNCHANGED <<Outside, parser, returned, lock, records, in_flight, semaphore, tpm_counter, rpm_counter, now>>

NextSizes ==
    \/ \E c \in SizeClients :
          \/ Arrive(c)
          \/ WaitGate(c)
          \/ WaitPermit(c)
    \/ Confirm(InputEstimates, MaxOutputTokens)
    \/ Tick

SpecSizes == InitSizes /\ [][NextSizes]_vars

(***************************************************************************)
(* A burst larger than a ceiling, as in test_llm_caller: more callers of   *)
(* acquire_slot than rpm admits in a window, or than tpm does once their   *)
(* calls are confirmed, and permits for all.  Every block sets a result    *)
(* and returns.  The clock is read relative to the present: when d seconds *)
(* pass, every timestamp falls back by d, and one that is past the window  *)
(* stays just past it, since the code only asks "timestamp < now - 60".    *)
(***************************************************************************)
LiveCallers == 1..NumLive

LiveCeilings ==
    {[tpm |-> 20, rpm |-> NumLive - 1, max_concurrent |-> NumLive],
     [tpm |-> 4, rpm |-> 9, max_concurrent |-> NumLive]}

InitLive ==
    /\ \E ceilings \in LiveCeilings : InitController(ceilings)
    /\ retry_config = RetryConfig(DefaultMaxAttempts, DefaultRetryExceptions)
    /\ task = [c \in LiveCallers |-> IdleTask]

Elapses(d) ==
    /\ records' = [i \in DOMAIN records |->
                      [records[i] EXCEPT !.timestamp =
                          IF @ - d < now - Window - 1 THEN now - Window - 1 ELSE @ - d]]
    /\ UNCHANGED <<Outside, parser, returned, lock, in_flight, semaphore, tpm_counter, rpm_counter, now, task>>

LiveStep(c) == AcquireSlot(c) \/ Gate(c) \/ SetResultIn(c, {"text"})

NextLive == (\E c \in LiveCallers : LiveStep(c)) \/ Elapses(TickSeconds)

\* The event loop runs every task that is ready, and time passes.
SpecLive ==
    /\ InitLive
    /\ [][NextLive]_vars
    /\ \A c \in LiveCallers : WF_vars(LiveStep(c))
    /\ WF_vars(Elapses(TickSeconds))

(***************************************************************************)
(* A MarkdownParser over every text of at most MaxLines lines "a", "b" or  *)
(* "c", under each strategy, with the cursor at any line; one call of      *)
(* extract_between or of _match_at_position is made on it, with markers    *)
(* and patterns that hold a SkipRange at the head, in the middle, at the   *)
(* tail, or none.                                                          *)
(***************************************************************************)
Texts == UNION {[1..n -> {"a", "b", "c"}] : n \in 0..MaxLines}

Strategies == {"lazy", "greedy", "first"}

Patterns ==
    {<<RegexAlternatives({"a"})>>,
     <<RegexAlternatives({"c"})>>,
     <<RegexAlternatives({"a", "c"})>>,
     <<RegexAlternatives({"a"}), RegexAlternatives({"b"})>>,
     <<SkipExact(1), RegexAlternatives({"c"})>>,
     <<SkipRange(0, MaxSkip), RegexAlternatives({"b"})>>,
     <<RegexAlternatives({"a"}), SkipRange(0, MaxSkip), RegexAlternatives({"b"})>>,
     <<RegexAlternatives({"a"}), SkipRange(1, MaxSkip)>>,
     <<SkipRange(0, MaxSkip)>>}

InitParser ==
    /\ tpm = 0
    /\ rpm = 0
    /\ max_concurrent = 0
    /\ retry_config = RetryConfig(DefaultMaxAttempts, DefaultRetryExceptions)
    /\ records = <<>>
    /\ in_flight = <<>>
    /\ semaphore = 0
    /\ lock = Free
    /\ tpm_counter = 0
    /\ rpm_counter = 0
    /\ now = 0
    /\ task = <<>>
    /\ last_call = NoCall
    /\ \E lines \in Texts, cursor \in 0..MaxLines, strategy \in Strategies :
          /\ cursor <= Len(lines)
          /\ parser = [lines |-> lines, cursor |-> cursor, strategy |-> strategy]
    /\ returned = NoReturn

Controller == <<records, in_flight, semaphore, lock, tpm_counter, rpm_counter, now, task>>

\* parser.extract_between(start_marker, end_marker, inclusive, must_exist)
CallExtractBetween ==
    /\ returned = NoReturn
    /\ \E start_marker, end_marker \in Patterns \cup {<<>>}, inclusive, must_exist \in BOOLEAN :
          LET r == ExtractBetween(parser, start_marker, end_marker, inclusive, must_exist)
          IN returned' = [op |-> "extract_between",
                          args |-> <<start_marker, end_marker, inclusive, must_exist>>,
                          err |-> r.err, end_cursor |-> r.end_cursor, content |-> r.content]
    /\ UNCHANGED <<Outside, Controller, parser>>

\* parser._match_at_position(start_line, pattern)
CallMatchAtPosition ==
    /\ returned = NoReturn
    /\ \E start_line \in 0..Len(parser.lines), pattern \in Patterns :
          LET r == MatchAtPosition(parser, start_line, pattern)
          IN returned' = [op |-> "_match_at_position",
                          args |-> <<start_line, pattern>>,
                          err |-> r.err, end_cursor |-> r.until, content |-> <<>>]
    /\ UNCHANGED <<Outside, Controller, parser>>

NextParser == CallExtractBetween \/ CallMatchAtPosition

SpecParser == InitParser /\ [][NextParser]_vars

(***************************************************************************)
(* Properties of the controller.                                           *)
(***************************************************************************)
Terminated(t) == t.pc = "done"

\* The ids of the slots the call was admitted with.
Admitted(t) == {t.log[i][2] : i \in {j \in DOMAIN t.log : t.log[j][1] = "admit"}}

\* How often the call aborted (cleanup_call), or confirmed, the slot id.
Times(t, kind, id) == Len(SelectSeq(t.log, LAMBDA ev : ev[1] = kind /\ ev[2] = id))

\* The slot id holds no permit and has no estimate entry in the ledger.
Released(id) == id \notin DOMAIN in_flight /\ FirstEstimate(records, id) = 0

\* C1: on every exit path of acquire_slot other than a cancellation (success,
\* retryable failure with or without attempts left, non-retryable failure, an
\* exception raised inside the block), every slot that was admitted and not
\* confirmed has been aborted exactly once when the call has terminated, and
\* the call then holds no permit, no id in in_flight and no estimate entry.
C1_AbortOnEveryExit ==
    \A c \in DOMAIN task :
        LET t == task[c]
        IN (Terminated(t) /\ t.outcome # Cancelled) =>
              \A id \in Admitted(t) :
                  /\ Times(t, "abort", id) = (IF Times(t, "confirm", id) = 0 THEN 1 ELSE 0)
                  /\ Released(id)

\* C2: when the task is cancelled in the capacity wait, in the permit
\* acquisition or inside the unit of work, every slot the call was admitted
\* with has been aborted: its permit is back in the pool, its estimate entry
\* and its share of the aggregates are gone.
C2_AbortOnCancellation ==
    \A c \in DOMAIN task :
        LET t == task[c]
        IN (Terminated(t) /\ t.outcome = Cancelled) =>
              \A id \in Admitted(t) :
                  /\ Times(t, "abort", id) + Times(t, "confirm", id) = 1
                  /\ Released(id)

\* The unit of work of the retry scenario: admission never fails, nobody
\* cancels, the block raises a retryable error on attempts 1 and 2 and sets a
\* result and returns on attempt 3.
BlockEnds(t) == SelectSeq(t.log, LAMBDA ev : ev[1] \in {"raises", "returns"})

RetryScenario(t) ==
    /\ retry_config.max_attempts = 3
    /\ retry_config.backoff_factor = 1
    /\ Pos(t, "estimator_raises") = 0
    /\ Pos(t, "cancelled") = 0
    /\ Pos(t, "run") # 0
    /\ LET runs == Logged(t, "run")
           ends == BlockEnds(t)
       IN \A i \in DOMAIN ends :
             IF runs[i][2] < 3
             THEN ends[i][1] = "raises" /\ ends[i][2] = ProviderError
             ELSE ends[i][1] = "returns" /\ HasResult(t.ctxs[runs[i][2]])

\* C3: in the retry scenario (max_attempts = 3, backoff base 1) the unit of
\* work runs three times, on attempts 1, 2 and 3, the call sleeps 1 s and then
\* 2 s, aborts exactly twice, confirms the third slot and the caller obtains
\* the result of attempt 3.
C3_RetryScenario ==
    \A c \in DOMAIN task :
        LET t == task[c]
        IN (Terminated(t) /\ RetryScenario(t)) =>
              /\ t.outcome = "ok"
              /\ Logged(t, "run") = << <<"run", 1>>, <<"run", 2>>, <<"run", 3>> >>
              /\ Logged(t, "sleep") = << <<"sleep", 1>>, <<"sleep", 2>> >>
              /\ Len(Logged(t, "abort")) = 2
              /\ Len(Logged(t, "confirm")) = 1
              /\ HasResult(t.ctxs[3])

\* The estimate entry of id in a ledger.
EstimateOf(recs, id) == recs[FirstEstimate(recs, id)]

\* C4: at the instant an admission appends its estimate entry, the TPM
\* aggregate exceeds the TPM ceiling by no more than that request's estimate
\* and the RPM aggregate exceeds the RPM ceiling by no more than one request,
\* also for a request that passed the gate and then waited for a permit.
C4_AdmissionSlack ==
    [][\A id \in DOMAIN in_flight' \ DOMAIN in_flight :
          /\ tpm_counter' <= tpm + Tokens(EstimateOf(records', id))
          /\ rpm_counter' <= rpm + 1]_vars

\* The callers of the burst that have been admitted.
BurstAdmitted == {c \in DOMAIN task : task[c].call_id # NoId}

\* C5: with tpm=1000, rpm=20 and max_concurrent=20, of a burst of requests of
\* 100 tokens each, none confirmed or aborted, at most 10 are admitted: the
\* ledger has at most 10 entries, the TPM aggregate is at most 1000, and
\* every other caller that has made its call is in the capacity gate.
C5_BurstAdmitsTen ==
    /\ Cardinality(BurstAdmitted) <= 10
    /\ Len(records) <= 10
    /\ tpm_counter <= 1000
    /\ \A c \in DOMAIN task \ BurstAdmitted : task[c].pc \in {"idle", "gate"}

\* Ten callers of the burst are admitted and all the others wait in the gate.
C5_Witness ==
    /\ tpm = 1000 /\ rpm = 20 /\ max_concurrent = 20
    /\ \A i \in DOMAIN records : Tokens(records[i]) = 100 /\ records[i].estimate
    /\ Cardinality(BurstAdmitted) = 10
    /\ Len(records) = 10
    /\ \A c \in DOMAIN task \ BurstAdmitted : task[c].pc = "gate"
    /\ Cardinality(DOMAIN task \ BurstAdmitted) >= 2

\* The callers inside their unit of work: admitted, not yet confirmed or
\* aborted.
InWork == {c \in DOMAIN task : task[c].pc = "body"}

\* C6: with max_concurrent = N at most N callers are inside their unit of
\* work at a time, each of them holding one of the N permits; a further
\* caller does not enter its unit of work before one of them has confirmed
\* or aborted.
C6_PermitBound ==
    /\ Cardinality(InWork) <= max_concurrent
    /\ Cardinality(DOMAIN in_flight) <= max_concurrent
    /\ semaphore = max_concurrent - Cardinality(DOMAIN in_flight)
    /\ \A c \in InWork : task[c].call_id \in DOMAIN in_flight

\* Two callers are inside their unit of work and a third is suspended in
\* semaphore.acquire.
C6_Witness ==
    /\ max_concurrent = 2
    /\ Cardinality(InWork) = 2
    /\ semaphore = 0
    /\ \E c \in DOMAIN task : task[c].pc = "sem_wait"

\* C7: a block that calls set_result once (any result, any token counts) and
\* returns normally takes the attempt to CONFIRMED: confirm is called with
\* the token counts supplied, the permit is released, and no further attempt,
\* abort or error follows.
C7_SetResultConfirms ==
    \A c \in DOMAIN task :
        LET t == task[c]
            i == Pos(t, "set_result")
        IN i # 0 =>
              /\ t.log[i + 1][1] = "returns"
              /\ Len(t.log) = i + 2
              /\ t.log[i + 2][1] = "confirm"
              /\ t.log[i + 2][2] = t.call_id
              /\ t.log[i + 2][3] = t.log[i][2]
              /\ t.log[i + 2][4] = t.log[i][3]
              /\ Released(t.call_id)
              /\ Terminated(t) /\ t.outcome = "ok"

\* C8: a block that returns normally without calling set_result is a fatal
\* fault under the default retry policy and under a custom one: the slot is
\* aborted and ResultNotSet is raised to the caller, with no backoff sleep
\* and no further attempt.
C8_ResultNotSetIsFatal ==
    \A c \in DOMAIN task :
        LET t == task[c]
            i == Pos(t, "returns")
        IN (i # 0 /\ Pos(t, "set_result") = 0) =>
              /\ Len(t.log) = i + 1
              /\ t.log[i + 1][1] = "abort"
              /\ Released(t.log[i + 1][2])
              /\ Terminated(t) /\ t.outcome = ResultNotSet

\* C9: abort is idempotent: in every reachable state of the controller and
\* for every id, cleanup_call(id) called twice in a row leaves the ledger,
\* the aggregates, in_flight and the available permits as one call does, and
\* the second call raises no error.
C9_AbortIdempotent ==
    \A id \in KnownIds :
        LET once == CleanupCall(Ctl, id)
            twice == CleanupCall(once.st, id)
        IN /\ twice.st = once.st
           /\ twice.err = None

\* cleanup_call has just been called a second time in a row with the id of
\* an admitted slot.
C9_Witness ==
    /\ last_call.op = "cleanup_call"
    /\ last_call.repeated
    /\ last_call.id # UnknownId
    /\ last_call.err = None

\* C10: cleanup_call(id) for an id that holds no permit (never admitted,
\* already aborted, already confirmed) raises no error and leaves the ledger,
\* the aggregates and the available permits unchanged.
C10_AbortWithoutPermitIsNoOp ==
    \A id \in KnownIds :
        id \notin DOMAIN in_flight =>
            /\ CleanupCall(Ctl, id).st = Ctl
            /\ CleanupCall(Ctl, id).err = None

\* C11: wait_after_call_if_needed for an id with no matching estimate entry
\* (the id was aborted, was confirmed before, or was never admitted) fails
\* with ValueError "record not found", whatever the tokens and the time.
C11_ConfirmWithoutEstimate ==
    \A id \in KnownIds :
        (id \notin DOMAIN in_flight \/ FirstEstimate(records, id) = 0) =>
            \A i \in ActualInputTokens, o \in LowActualOutputTokens :
                WaitAfterCall(Ctl, id, i, o, now).err = RecordNotFound

\* wait_after_call_if_needed has just failed for an admitted id that was
\* confirmed or aborted before.
C11_Witness ==
    /\ last_call.op = "wait_after_call_if_needed"
    /\ last_call.err = RecordNotFound
    /\ last_call.id # UnknownId
    /\ last_call.id \notin DOMAIN in_flight

\* The entry of id in a ledger that holds one.
RecordOf(recs, id) == recs[CHOOSE i \in DOMAIN recs : recs[i].id = id]

\* The ids a step confirms: in flight before, not after, with a real record
\* in the ledger after.
ConfirmedByStep ==
    {id \in DOMAIN in_flight \ DOMAIN in_flight' :
        \E i \in DOMAIN records' : records'[i].id = id /\ ~records'[i].estimate}

\* C12: a successful confirm with actual tokens A of a slot whose estimate
\* carries E tokens changes the TPM aggregate by exactly A - E in that step
\* (so admit and confirm together contribute A) and leaves the RPM aggregate.
C12_ConfirmDelta ==
    [][\A id \in ConfirmedByStep :
          /\ tpm_counter' - tpm_counter =
                Tokens(RecordOf(records', id)) - Tokens(EstimateOf(records, id))
          /\ rpm_counter' = rpm_counter]_vars

\* A slot estimated at 2 tokens has been confirmed with 4, alone in the
\* ledger: the aggregate is 4.
C12_Witness ==
    /\ last_call.op = "wait_after_call_if_needed"
    /\ last_call.err = None
    /\ Len(records) = 1
    /\ ~records[1].estimate
    /\ Tokens(records[1]) = 4
    /\ tpm_counter = 4

Estimates(recs) == SelectSeq(recs, LAMBDA r : r.estimate)
Reals(recs) == SelectSeq(recs, LAMBDA r : ~r.estimate)

\* The moments a sweep may run at: now and later, past every window.
SweepTimes == {now + n * TickSeconds : n \in 0..(MaxTicks + 3)}

\* C13: a sweep at any time removes no estimate entry, whatever its age and
\* its place in the ledger: the estimates after it are those before it, with
\* their tokens, and the aggregates drop by the real records removed only.
C13_SweepKeepsEstimates ==
    \A t \in SweepTimes :
        LET swept == CleanupExpired(Ctl, t)
        IN /\ Estimates(swept.records) = Estimates(records)
           /\ tpm_counter - swept.tpm_counter =
                 SumTokens(Reals(records)) - SumTokens(Reals(swept.records))
           /\ rpm_counter - swept.rpm_counter =
                 Len(Reals(records)) - Len(Reals(swept.records))

\* An estimate older than the window is in the ledger after a sweep: a later
\* call was admitted, by a gate that swept first, at the present moment.
C13_Witness ==
    \E i, j \in DOMAIN records :
        /\ i < j
        /\ records[i].estimate
        /\ records[i].timestamp < now - Window
        /\ records[j].estimate
        /\ records[j].timestamp = now

\* The exception raised inside the try block of acquire_slot at the event i
\* of the log of t, or None: raised by the block, by the estimator, by a
\* confirm, or by the has_result test after a block that set no result.
ErrorAt(t, i) ==
    LET ev == t.log[i]
    IN IF ev[1] \in {"raises", "estimator_raises", "confirm_raises"} THEN ev[2]
       ELSE IF ev[1] = "returns" /\ (IF i = Len(t.log) THEN TRUE
                                     ELSE t.log[i + 1][1] \notin {"confirm", "confirm_raises"})
       THEN ResultNotSet
       ELSE None

\* The index of the last event of that kind before the event i, or 0.
LastBefore(t, i, kind) ==
    LET hits == {j \in 1..(i - 1) : t.log[j][1] = kind}
    IN IF hits = {} THEN 0 ELSE CHOOSE j \in hits : \A h \in hits : h <= j

\* The local call_id of the generator at the event i: the id of the attempt's
\* admission, or NoId before it.
HeldAt(t, i) ==
    LET a == LastBefore(t, i, "admit")
    IN IF a > LastBefore(t, i, "sleep") THEN t.log[a][2] ELSE NoId

Retryable(e) == Matches(e, retry_config.retry_exceptions)

\* C14: only an exception of a class in retry_exceptions is followed by a
\* backoff sleep and a further admission.  An exception of any other class,
\* raised in the admission, in the block or in the confirm, is followed by
\* the abort of the slot the attempt holds and by nothing else: the call ends
\* with that exception, the slot released.
C14_PropagationPolicy ==
    \A c \in DOMAIN task :
        LET t == task[c]
        IN /\ \A i \in DOMAIN t.log :
                 (ErrorAt(t, i) # None /\ ~Retryable(ErrorAt(t, i))) =>
                     /\ SubSeq(t.log, i + 1, Len(t.log)) =
                           (IF HeldAt(t, i) # NoId THEN << <<"abort", HeldAt(t, i)>> >>
                            ELSE <<>>)
                     /\ Terminated(t)
                     /\ t.outcome = ErrorAt(t, i)
                     /\ HeldAt(t, i) # NoId => Released(HeldAt(t, i))
           /\ \A j \in DOMAIN t.log :
                 t.log[j][1] = "sleep" =>
                     \E i \in {j - 2, j - 1} \cap DOMAIN t.log :
                         /\ ErrorAt(t, i) # None
                         /\ Retryable(ErrorAt(t, i))
                         /\ i = j - 2 => t.log[j - 1][1] = "abort"
           /\ \A j \in DOMAIN t.log :
                 (t.log[j][1] = "admit" /\ LastBefore(t, j, "admit") # 0) =>
                     t.log[j - 1][1] = "sleep"

\* Under a policy that leaves Exception out, the block raised KeyError on a
\* first attempt with attempts left: the slot was aborted and the call ended
\* with KeyError.
C14_Witness ==
    \E c \in DOMAIN task :
        LET t == task[c]
        IN /\ retry_config.max_attempts > 1
           /\ ~Retryable(OtherError)
           /\ Terminated(t)
           /\ t.outcome = OtherError
           /\ Len(t.log) = 4
           /\ t.log[3] = <<"raises", OtherError>>
           /\ t.log[4][1] = "abort"

\* The indices of the log of t at which an exception was raised inside the
\* try block.
Errors(t) == {i \in DOMAIN t.log : ErrorAt(t, i) # None}

\* Every attempt of the call that ran has failed with a retryable exception:
\* nobody cancelled, no attempt was confirmed, and every exception raised in
\* an admission or by the block is matched by retry_exceptions.
AllAttemptsFail(t) ==
    /\ Errors(t) # {}
    /\ Pos(t, "cancelled") = 0
    /\ Pos(t, "confirm") = 0
    /\ Pos(t, "body_aborts") = 0
    /\ \A i \in Errors(t) : Retryable(ErrorAt(t, i)) /\ t.log[i][1] # "returns"

\* C15: when every attempt of an acquire_slot call fails with a retryable
\* exception, raised in the admission or by the block, the call ends with the
\* exception of its last attempt, for every max_attempts >= 1.
C15_LastErrorSurfaces ==
    \A c \in DOMAIN task :
        LET t == task[c]
        IN (Terminated(t) /\ AllAttemptsFail(t)) =>
              t.outcome = ErrorAt(t, CHOOSE i \in Errors(t) : \A j \in Errors(t) : j <= i)

\* C16: in a finite burst of acquire_slot calls whose blocks all set a result
\* and return and whose required tokens fit under the TPM ceiling, every call
\* is eventually admitted and confirmed, under fair scheduling and advancing
\* time, also when the burst is larger than the RPM ceiling.
C16_BurstCompletes ==
    <>(\A c \in DOMAIN task : task[c].pc = "done" /\ task[c].outcome = "ok"
                              /\ Len(Logged(task[c], "confirm")) = 1)

\* Every call of a burst larger than the RPM ceiling is confirmed; the last
\* to be admitted followed the expiry of a confirmed entry.
C16_Witness ==
    /\ Cardinality(DOMAIN task) > rpm
    /\ \A c \in DOMAIN task : task[c].pc = "done" /\ task[c].outcome = "ok"
    /\ Len(records) < Cardinality(DOMAIN task)

\* C17: the backoff slept after the failed attempt k, k < max_attempts, is
\* backoff_factor * 2^(k-1): the n-th sleep of a call follows its n-th
\* attempt and lasts 1, 2, 4, ... times the factor; no sleep follows the last
\* attempt, and none follows a confirmed attempt.
C17_BackoffSchedule ==
    \A c \in DOMAIN task :
        LET t == task[c]
            sleeps == Logged(t, "sleep")
        IN /\ \A n \in DOMAIN sleeps :
                 sleeps[n][2] = retry_config.backoff_factor * (2 ^ (n - 1))
           /\ Len(sleeps) \in {t.attempt - 1, t.attempt} \cap Nat
           /\ t.pc = "backoff" => Len(sleeps) = t.attempt
           /\ t.pc \in {"gate", "sem_wait", "body"} => Len(sleeps) = t.attempt - 1
           /\ Len(sleeps) <= retry_config.max_attempts - 1
           /\ \A j \in DOMAIN t.log :
                 t.log[j][1] = "sleep" => LastBefore(t, j, "confirm") = 0

\* A call under max_attempts = 4 and backoff_factor 3 has slept 3, 6 and 12
\* seconds after its first three attempts and failed on the fourth.
C17_Witness ==
    \E c \in DOMAIN task :
        /\ retry_config.max_attempts = 4
        /\ retry_config.backoff_factor = 3
        /\ Logged(task[c], "sleep") = << <<"sleep", 3>>, <<"sleep", 6>>, <<"sleep", 12>> >>
        /\ Terminated(task[c])
        /\ task[c].attempt = 4

\* ceil(a / b) for b > 0.
CeilDiv(a, b) == (a + b - 1) \div b

\* C18: for every prompt the default estimator returns
\* max(1, ceil(len(prompt) / 4) + 10), and the required tokens of the gate and
\* of the estimate entry are that estimate plus max_output_token.
C18_EstimateAndRequired ==
    \A c \in DOMAIN task :
        LET t == task[c]
            p == Pos(t, "prompt")
        IN p # 0 =>
              /\ t.input_est = Max(1, CeilDiv(t.log[p][2], 4) + 10)
              /\ t.call_id # NoId =>
                    /\ EstimateOf(records, t.call_id).input_tokens = t.input_est
                    /\ Tokens(EstimateOf(records, t.call_id)) =
                          t.input_est + t.max_output_token

\* C19: the result of a RequestContext is set at most once: after a first
\* set_result, the context holds the result and the token counts of that
\* first call, whatever a second call passes.
C19_ResultSetOnce ==
    \A c \in DOMAIN task :
        LET t == task[c]
            i == Pos(t, "set_result")
        IN (i # 0 /\ Pos(t, "late_set_result") = 0) =>
              /\ t.ctxs[t.handed].input_tokens = t.log[i][2]
              /\ t.ctxs[t.handed].output_tokens = t.log[i][3]
              /\ t.ctxs[t.handed].result = t.log[i][4]

\* C20: the RequestContext handed to the caller is closed once its attempt
\* has ended, confirmed or failed, with or without attempts left: set_result
\* on it raises the fault of a closed context and leaves it as it was.
C20_ContextClosed ==
    \A c \in DOMAIN task :
        LET t == task[c]
        IN (t.handed # 0 /\ t.pc # "body" /\ t.outcome # Cancelled) =>
              /\ t.ctxs[t.handed].exited
              /\ \A a \in SetResultArgs :
                    SetResultOf(t.ctxs[t.handed], a[1], a[2], a[3]) =
                       [ctx |-> t.ctxs[t.handed], err |-> ContextExited]

\* The real records of a ledger that are older than the window at time t.
Expired(recs, t) == SelectSeq(recs, LAMBDA r : ~r.estimate /\ r.timestamp < t - Window)

\* C21: after a sweep at any time no confirmed entry older than the window is
\* left anywhere in the ledger, whatever the order the confirms came in, and
\* the aggregates drop by the tokens and by the number of the entries removed.
C21_SweepRemovesExpired ==
    \A t \in SweepTimes :
        LET swept == CleanupExpired(Ctl, t)
        IN /\ Expired(swept.records, t) = <<>>
           /\ tpm_counter - swept.tpm_counter =
                 SumTokens(records) - SumTokens(swept.records)
           /\ rpm_counter - swept.rpm_counter = Len(records) - Len(swept.records)

\* C22: between any two operations, after any interleaving of admit, confirm,
\* abort and sweep, the TPM aggregate is the sum of input_tokens +
\* output_tokens over the entries of the ledger, the RPM aggregate is the
\* number of entries, and neither is negative.
C22_AggregatesMatchLedger ==
    /\ tpm_counter = SumTokens(records)
    /\ rpm_counter = Len(records)
    /\ tpm_counter >= 0
    /\ rpm_counter >= 0

\* A slot was confirmed with 4 tokens, which filled the TPM ceiling; past the
\* window a sweep removed its entry and a second caller was admitted: its
\* estimate is alone in the ledger.
C22_Witness ==
    /\ last_call.op = "wait_after_call_if_needed"
    /\ last_call.err = None
    /\ Len(records) = 1
    /\ records[1].estimate
    /\ records[1].id # last_call.id
    /\ records[1].timestamp > Window
    /\ tpm_counter = 2
    /\ rpm_counter = 1

\* No task is inside wait_before_call_if_needed.
NoAdmitUnderWay == \A c \in DOMAIN task : task[c].pc \notin {"gate", "sem_wait"}

\* C23: the permits that are free never exceed max_concurrent; whenever no
\* caller is in the middle of an admission, the free permits plus the ids in
\* in_flight make max_concurrent; and a step that frees a permit frees one
\* and takes one id out of in_flight, so that no admission is released twice,
\* whatever confirms and aborts are repeated or follow one another.
C23_PermitConservation ==
    /\ [](semaphore \in 0..max_concurrent)
    /\ [](NoAdmitUnderWay =>
             semaphore + Cardinality(DOMAIN in_flight) = max_concurrent)
    /\ [][semaphore' > semaphore =>
             /\ semaphore' = semaphore + 1
             /\ DOMAIN in_flight' \subseteq DOMAIN in_flight
             /\ Cardinality(DOMAIN in_flight \ DOMAIN in_flight') = 1]_vars

\* Every task was admitted, every slot has been released, and the last call
\* was an abort of a slot that a confirm or an abort had released before:
\* all the permits are free.
C23_Witness ==
    /\ \A c \in DOMAIN task : task[c].pc = "idle" /\ task[c].call_id # NoId
    /\ in_flight = <<>>
    /\ semaphore = max_concurrent
    /\ max_concurrent = 2
    /\ last_call.op = "cleanup_call"
    /\ last_call.id # UnknownId
    /\ last_call.repeated

\* C24: the ledger holds at most one entry per request id, and the ids that
\* have an estimate entry are the ids in in_flight.
C24_OneEntryPerId ==
    /\ \A i, j \in DOMAIN records : records[i].id = records[j].id => i = j
    /\ {records[i].id : i \in {j \in DOMAIN records : records[j].estimate}} =
          DOMAIN in_flight

\* Two slots were admitted and one of them confirmed: a real record and an
\* estimate in the ledger, the id of the estimate alone in in_flight.
C24_Witness ==
    /\ Len(records) = 2
    /\ ~records[1].estimate
    /\ records[2].estimate
    /\ DOMAIN in_flight = {records[2].id}

\* C25: a confirmed entry is never modified: every step leaves it in the
\* ledger as it is, estimate flag and token counts, or removes it (expiry or
\* abort), so an entry goes from estimate to confirmed at most once and
\* never back.
C25_ConfirmedIsFinal ==
    [][\A i \in DOMAIN records :
          ~records[i].estimate =>
              \A j \in DOMAIN records' :
                  records'[j].id = records[i].id => records'[j] = records[i]]_vars

\* A second confirm of a confirmed slot, with other tokens and at a later
\* time, has just failed, and the entry is in the ledger as the first left it.
C25_Witness ==
    /\ last_call.op = "wait_after_call_if_needed"
    /\ last_call.repeated
    /\ last_call.err = RecordNotFound
    /\ \E i \in DOMAIN records :
          /\ records[i].id = last_call.id
          /\ ~records[i].estimate
          /\ records[i].timestamp < now

\* C26: the ledger is ordered by timestamp, non-decreasing from head to tail.
C26_LedgerOrdered ==
    \A i, j \in DOMAIN records :
        i < j => records[i].timestamp <= records[j].timestamp

\* What one iteration of _wait_for_capacity by task c observes: the ledger
\* after the sweep, and whether the request fits under both ceilings.
Observed(c) ==
    LET swept == CleanupExpired(Ctl, now)
        required_tokens == task[c].input_est + task[c].max_output_token
    IN [st |-> swept,
        tpm_ok |-> swept.tpm_counter + required_tokens <= tpm,
        rpm_ok |-> swept.rpm_counter < rpm]

\* The ledger a step leaves, without the estimate that the admission of
\* task c appended to it.
LedgerBut(c) ==
    IF task'[c].call_id # task[c].call_id
    THEN SubSeq(records', 1, Len(records') - 1)
    ELSE records'

\* C27: a task leaves the capacity gate only in an iteration that found, after
\* its sweep, TPM aggregate + required_tokens <= tpm and RPM aggregate < rpm;
\* an iteration that finds both leaves the gate (a request of exactly the
\* TPM that remains passes, an RPM aggregate at the ceiling does not); one
\* that does not stays in the gate for the next poll; and the iteration
\* changes the ledger and the aggregates through its sweep alone.
C27_GateCondition ==
    [][\A c \in DOMAIN task :
          LET seen == Observed(c)
          IN /\ (task[c].pc = "gate" /\ task'[c].pc # "gate") =>
                    seen.tpm_ok /\ seen.rpm_ok
             /\ WaitGate(c) =>
                    /\ (seen.tpm_ok /\ seen.rpm_ok) => task'[c].pc # "gate"
                    /\ ~(seen.tpm_ok /\ seen.rpm_ok) =>
                           /\ task'[c] = task[c]
                           /\ tpm_counter' = seen.st.tpm_counter
                           /\ rpm_counter' = seen.st.rpm_counter
                    /\ LedgerBut(c) = seen.st.records]_vars

\* Under tpm = 6 and rpm = 2: a call was confirmed with 4 tokens, a request
\* of 2 tokens then passed the gate, which filled the TPM ceiling exactly,
\* and a third task is held in the gate, the RPM aggregate at its ceiling.
C27_Witness ==
    /\ tpm = 6
    /\ rpm = 2
    /\ Len(records) = 2
    /\ ~records[1].estimate
    /\ Tokens(records[1]) = 4
    /\ records[2].estimate
    /\ records[1].timestamp < records[2].timestamp
    /\ tpm_counter = tpm
    /\ rpm_counter = rpm
    /\ \E c \in DOMAIN task : task[c].pc = "gate"

\* C28: no task holds the ledger lock while it is suspended in the poll
\* sleep of the gate, in the wait for a permit, in its unit of work or in a
\* backoff sleep, nor once its call has ended; and at most one task is inside
\* a block of the lock, the one that holds it.
C28_LockNeverHeldSuspended ==
    /\ \A c \in DOMAIN task :
          task[c].pc \in {"sleep", "sem_wait", "body", "backoff", "done"} => lock # c
    /\ Cardinality({c \in DOMAIN task : task[c].pc \in InCritical}) <= 1
    /\ \A c \in DOMAIN task : task[c].pc \in InCritical <=> lock = c

\* One task holds the lock inside the block of cleanup_call while another is
\* suspended in its unit of work.
C28_Witness ==
    \E c, d \in DOMAIN task :
        /\ lock = c
        /\ task[c].pc = Inside("cleanup")
        /\ task[d].pc = "body"

\* The slot id holds no permit and has no entry in the ledger.
Gone(id) == id \notin DOMAIN in_flight /\ \A i \in DOMAIN records : records[i].id # id

\* C29: when an attempt has failed and the call retries, the abort of that
\* attempt's slot is complete before the backoff sleep starts and before the
\* admission of the next attempt begins: in the log every admission that
\* precedes a sleep is followed by its abort before that sleep, and while the
\* call sleeps or waits to be admitted again, no slot of its earlier attempts
\* holds a permit or has an entry in the ledger.
C29_AbortBeforeRetry ==
    \A c \in DOMAIN task :
        LET t == task[c]
        IN /\ (t.pc = "backoff" \/ (t.pc \in {"gate", "sem_wait"} /\ t.attempt > 1)) =>
                 \A id \in Admitted(t) : Gone(id)
           /\ \A i \in DOMAIN t.log :
                 t.log[i][1] = "sleep" =>
                     \A j \in 1..i :
                         t.log[j][1] = "admit" =>
                             \E n \in (j + 1)..(i - 1) : t.log[n] = <<"abort", t.log[j][2]>>

\* The block of an admitted attempt raised, the slot was aborted and the
\* call sleeps: every permit is free and the ledger is empty.
C29_Witness ==
    \E c \in DOMAIN task :
        LET t == task[c]
        IN /\ t.pc = "backoff"
           /\ Len(Logged(t, "admit")) = 1
           /\ Len(Logged(t, "raises")) = 1
           /\ Len(Logged(t, "abort")) = 1
           /\ semaphore = max_concurrent
           /\ records = <<>>

\* The call has ended as a call of acquire_slot may: with a confirm, or with
\* an error raised to the caller.
EndedWell(t) ==
    /\ Terminated(t)
    /\ \/ t.outcome = "ok" /\ Len(Logged(t, "confirm")) = 1
       \/ t.outcome \notin {None, "ok"}

\* C30: a call of acquire_slot with max_attempts >= 1 is admitted at most
\* max_attempts times, at most once per attempt, its attempts are numbered
\* 1, 2, ... without a gap up to max_attempts at most, the else branch of the
\* for loop ("Unexpected retry logic error") is never reached, and, every
\* admission returning and every unit of work ending, the call ends: with a
\* confirm, or with an error raised to the caller.
C30_BoundedAttempts ==
    /\ [](\A c \in DOMAIN task :
             LET t == task[c]
             IN /\ retry_config.max_attempts >= 1
                /\ t.attempt <= retry_config.max_attempts
                /\ Len(t.ctxs) = t.attempt
                /\ \A i \in DOMAIN t.ctxs : t.ctxs[i].attempt = i
                /\ Len(Logged(t, "admit")) <= t.attempt
                /\ Pos(t, "for_else") = 0
                /\ t.outcome # UnexpectedRetryLogic
                /\ Terminated(t) => EndedWell(t))
    /\ <>(\A c \in DOMAIN task : EndedWell(task[c]))

\* A call used every attempt of a policy of three or more: the estimator
\* failed on all attempts but the last, which was admitted and confirmed.
C30_Witness ==
    \E c \in DOMAIN task :
        LET t == task[c]
        IN /\ Terminated(t)
           /\ t.outcome = "ok"
           /\ t.attempt = retry_config.max_attempts
           /\ t.attempt >= 3
           /\ Len(Logged(t, "estimator_raises")) = t.attempt - 1
           /\ Len(Logged(t, "admit")) = 1

\* Task c can be admitted now: its next poll passes the test and finds a
\* permit free, or semaphore.acquire can return to it.
CanAdmit(c) ==
    \/ /\ task[c].pc = "gate"
       /\ GateStep(Ctl, FreshId(c, task[c]), task[c].input_est,
                   task[c].max_output_token, now, c).to = "admitted"
    \/ /\ task[c].pc = "sem_wait"
       /\ semaphore > 0

\* The controller after wait_before_call_if_needed admits task c now.
AdmitOf(c) ==
    LET t == task[c]
        id == FreshId(c, t)
    IN IF t.pc = "gate"
       THEN GateStep(Ctl, id, t.input_est, t.max_output_token, now, c).st
       ELSE PermitStep(Ctl, id, t.input_est, t.max_output_token, now, c)

\* What the admission of task c starts from once its own sweep has run: the
\* poll that admits sweeps first; the return of semaphore.acquire does not.
SweptFor(c) == IF task[c].pc = "gate" THEN CleanupExpired(Ctl, now) ELSE Ctl

\* C31 as stated: in every reachable state, admitting a slot and then
\* calling cleanup_call on its id before any confirm restores the ledger, the
\* TPM and RPM aggregates, in_flight and the available permits to their
\* values before the admit.
C31_RoundTripRestores ==
    \A c \in DOMAIN task :
        CanAdmit(c) =>
            CleanupCall(AdmitOf(c), FreshId(c, task[c])).st = Ctl

\* C31, amended: in every reachable state, admitting a slot and then calling
\* cleanup_call on its id before any confirm restores the ledger, the TPM and
\* RPM aggregates, in_flight and the available permits to the values the
\* sweep of the admitting poll left (the values before the admit, less the
\* confirmed entries older than the window); the admit takes exactly one
\* permit and the abort releases exactly one, without an error.
C31_RoundTripRestoresSwept ==
    \A c \in DOMAIN task :
        CanAdmit(c) =>
            LET id == FreshId(c, task[c])
                admitted == AdmitOf(c)
                aborted == CleanupCall(admitted, id)
            IN /\ aborted.st = SweptFor(c)
               /\ aborted.err = None
               /\ admitted.semaphore = SweptFor(c).semaphore - 1
               /\ aborted.st.semaphore = admitted.semaphore + 1
               /\ id \in DOMAIN admitted.in_flight
               /\ \E i \in 1..Len(admitted.records) : admitted.records[i].id = id

\* A slot was admitted after the window of an earlier request had passed and
\* has just been aborted, unconfirmed: the ledger is empty, the aggregates
\* are zero and every permit is free.
C31_Witness ==
    /\ last_call.op = "cleanup_call"
    /\ ~last_call.repeated
    /\ last_call.err = None
    /\ now > Window
    /\ \E c, d \in DOMAIN task :
          /\ task[c].call_id = last_call.id
          /\ Logged(task[c], "admit") # <<>>
          /\ task[d].call_id \notin {NoId, last_call.id}
    /\ records = <<>>
    /\ DOMAIN in_flight = {}
    /\ tpm_counter = 0
    /\ rpm_counter = 0
    /\ semaphore = max_concurrent

\* The step is a call of wait_after_call_if_needed that raises ValueError
\* "record not found": the first such call for the id, or the second in a row.
FailedConfirmStep ==
    /\ last_call' # last_call
    /\ last_call'.op = "wait_after_call_if_needed"
    /\ last_call'.err = RecordNotFound

\* C32: a confirm that fails with RecordNotFound changes nothing: the ledger,
\* the TPM and RPM aggregates, in_flight and the available permits are after
\* the failed wait_after_call_if_needed what they were before it.
C32_FailedConfirmChangesNothing ==
    [][FailedConfirmStep =>
          /\ records' = records
          /\ tpm_counter' = tpm_counter
          /\ rpm_counter' = rpm_counter
          /\ in_flight' = in_flight
          /\ semaphore' = semaphore]_vars

\* wait_after_call_if_needed has just failed for an id confirmed or aborted
\* before, while another slot is in flight with its estimate in the ledger.
C32_Witness ==
    /\ last_call.op = "wait_after_call_if_needed"
    /\ last_call.err = RecordNotFound
    /\ last_call.id # UnknownId
    /\ DOMAIN in_flight # {}
    /\ \E i \in DOMAIN records : records[i].estimate /\ records[i].id # last_call.id
    /\ semaphore < max_concurrent

\* The step is a call of wait_after_call_if_needed that returns.
ConfirmStep ==
    /\ last_call' # last_call
    /\ last_call'.op = "wait_after_call_if_needed"
    /\ last_call'.err = None

\* C33: a successful confirm of id X leaves the RPM aggregate, the number of
\* ledger entries, the position of X's entry and every entry of other ids
\* unchanged; it changes only X's entry (now a confirmed one with the time of
\* the confirm), the TPM aggregate (by the tokens of that entry), in_flight
\* (X removed) and the permit pool (one permit released).
C33_ConfirmFrame ==
    [][ConfirmStep =>
          LET X == last_call'.id
          IN /\ rpm_counter' = rpm_counter
             /\ Len(records') = Len(records)
             /\ \E i \in DOMAIN records :
                   /\ records[i].id = X /\ records[i].estimate
                   /\ records'[i].id = X /\ ~records'[i].estimate
                   /\ records'[i].timestamp = now
                   /\ \A j \in DOMAIN records \ {i} :
                         records'[j] = records[j] /\ records[j].id # X
                   /\ tpm_counter' - tpm_counter =
                         Tokens(records'[i]) - Tokens(records[i])
             /\ X \in DOMAIN in_flight
             /\ in_flight' = PopInFlight(in_flight, X)
             /\ semaphore' = semaphore + 1
             /\ UNCHANGED <<tpm, rpm, max_concurrent, retry_config, lock, now, task,
                          parser, returned>>]_vars

\* The first of two admitted slots has just been confirmed: its confirmed
\* entry is still ahead of the estimate of the other.
C33_Witness ==
    /\ last_call.op = "wait_after_call_if_needed"
    /\ last_call.err = None
    /\ Len(records) = 2
    /\ records[1].id = last_call.id
    /\ ~records[1].estimate
    /\ records[2].estimate
    /\ DOMAIN in_flight = {records[2].id}

\* Task c leaves the gate with its slot in one poll.
AdmittedByPoll(c) == WaitGate(c) /\ task'[c].call_id # NoId

Oversized(c) == task[c].input_est + task[c].max_output_token > tpm

\* Task c holds no slot after the step: its call has not returned or raised,
\* no permit is held for it and no ledger entry is its own.
StillWaits(c) ==
    /\ task'[c].pc = "gate"
    /\ task'[c].call_id = NoId
    /\ task'[c].outcome = None
    /\ task'[c].last_exception = None
    /\ \A id \in DOMAIN in_flight' : in_flight'[id] # c
    /\ \A i \in DOMAIN records' : records'[i].id # FreshId(c, task[c])

\* C35 as stated: a request whose required_tokens exceeds the TPM ceiling is
\* never admitted: it never acquires a permit, never appends a ledger entry
\* and never changes the aggregates, and its call never returns or raises.
C35_OversizedChangesNothing ==
    [][\A c \in DOMAIN task :
          Oversized(c) =>
              /\ StillWaits(c)
              /\ WaitGate(c) =>
                    /\ task' = task
                    /\ semaphore' = semaphore
                    /\ in_flight' = in_flight
                    /\ tpm_counter' = tpm_counter
                    /\ rpm_counter' = rpm_counter]_vars

\* C35, amended: a request whose required_tokens exceeds the TPM ceiling is
\* never admitted: it never acquires a permit and never appends a ledger
\* entry, its call never returns or raises, and its polls change the ledger
\* and the aggregates only by their sweep of expired confirmed entries.
C35_OversizedNeverAdmitted ==
    [][\A c \in DOMAIN task :
          Oversized(c) =>
              /\ StillWaits(c)
              /\ WaitGate(c) =>
                    /\ task' = task
                    /\ semaphore' = semaphore
                    /\ in_flight' = in_flight
                    /\ records' = Observed(c).st.records
                    /\ tpm_counter' = Observed(c).st.tpm_counter
                    /\ rpm_counter' = Observed(c).st.rpm_counter]_vars

\* The request of 8 tokens called first and still waits at the end of the
\* clock, under tpm = 6, though every other request was admitted and
\* confirmed, the ledger is empty again and the permit is free.
C35_Witness ==
    /\ task[2].pc = "gate"
    /\ Oversized(2)
    /\ Arrival(task[2]) = 1
    /\ now = MaxTicks * TickSeconds
    /\ \A c \in DOMAIN task \ {2} : task[c].call_id # NoId
    /\ records = <<>>
    /\ tpm_counter = 0
    /\ semaphore = max_concurrent

\* The confirmed entries of recs that are not older than the window at t.
InWindow(recs, t) == SelectSeq(recs, LAMBDA r : ~r.estimate /\ r.timestamp >= t - Window)

\* The index of the entry of id in recs, or 0.
IndexOf(recs, id) ==
    IF \E i \in DOMAIN recs : recs[i].id = id
    THEN CHOOSE i \in DOMAIN recs : recs[i].id = id
    ELSE 0

\* C36: a sweep at any time removes no confirmed entry whose timestamp is
\* within the last 60 seconds (an entry exactly 60 s old stays), leaves the
\* entries it keeps in the order they had, and counts what it keeps: a
\* confirmed entry, stamped with the time of its confirmation, is in the
\* ledger and in both aggregates after every sweep of its first 60 seconds.
C36_SweepKeepsWindow ==
    \A t \in SweepTimes :
        LET swept == CleanupExpired(Ctl, t)
        IN /\ InWindow(swept.records, t) = InWindow(records, t)
           /\ \A i \in DOMAIN swept.records :
                 /\ IndexOf(records, swept.records[i].id) > 0
                 /\ records[IndexOf(records, swept.records[i].id)] = swept.records[i]
           /\ \A i, j \in DOMAIN swept.records :
                 i < j => IndexOf(records, swept.records[i].id)
                             < IndexOf(records, swept.records[j].id)
           /\ \A i \in DOMAIN records :
                 (~records[i].estimate /\ t <= records[i].timestamp + Window) =>
                     /\ records[i].timestamp <= now
                     /\ IndexOf(swept.records, records[i].id) > 0
                     /\ swept.tpm_counter >= Tokens(records[i])
                     /\ swept.rpm_counter >= 1
           /\ swept.tpm_counter = SumTokens(swept.records)
           /\ swept.rpm_counter = Len(swept.records)

\* A slot was admitted by a poll of the gate 60 s after an earlier call was
\* confirmed: the confirmed entry, exactly as old as the window, is still at
\* the head of the ledger and in the aggregates, while the entry of the
\* third call, confirmed earlier or aborted, is gone.
C36_Witness ==
    /\ now > Window
    /\ Len(records) = 2
    /\ ~records[1].estimate
    /\ records[1].timestamp = now - Window
    /\ records[2].estimate
    /\ records[2].timestamp = now
    /\ tpm_counter = Tokens(records[1]) + Tokens(records[2])
    /\ rpm_counter = 2
    /\ \A c \in DOMAIN task : task[c].call_id # NoId

(***************************************************************************)
(* Properties of the parser.                                               *)
(***************************************************************************)
\* Both markers of the call are found: the start marker from the cursor on,
\* the end marker after the last line of the start marker.
BothFound(start, end) ==
    /\ start.err = None /\ start.line # -1
    /\ end.err = None /\ end.line # -1

\* C37: when both markers are found, extract_between with inclusive=True
\* returns the lines of the start marker, the lines of the end marker and
\* everything between them, and with inclusive=False exactly the lines
\* between the last line of the start marker and the first line of the end
\* marker; the end marker is in both cases its first match after the start
\* marker.
C37_ExtractedContent ==
    returned.op = "extract_between" =>
        LET start_marker == returned.args[1]
            end_marker == returned.args[2]
            inclusive == returned.args[3]
            start == SearchMarker(parser, parser.cursor, start_marker)
            end == SearchMarker(parser, start.until, end_marker)
        IN (start_marker # <<>> /\ end_marker # <<>> /\ BothFound(start, end)) =>
              /\ returned.err = None
              /\ returned.end_cursor = end.until
              /\ returned.content =
                    IF inclusive
                    THEN Slice(parser.lines, start.line, end.until)
                    ELSE Slice(parser.lines, start.until, end.line)

\* The indices of the SkipRange elements of a pattern.
Ranges(pattern) == {i \in DOMAIN pattern : pattern[i].type = "SkipRange"}

\* C38: for a pattern of two or more elements with one SkipRange(min, max),
\* at its head, in its middle or at its tail, _match_at_position under "lazy"
\* skips the smallest count in min..max for which the rest of the pattern
\* matches, and under "greedy" the largest, whenever there is such a count.
C38_StrategyDecidesSkip ==
    (/\ returned.op = "_match_at_position"
     /\ parser.strategy \in {"lazy", "greedy"}
     /\ Len(returned.args[2]) >= 2
     /\ Cardinality(Ranges(returned.args[2])) = 1) =>
        LET pattern == returned.args[2]
            i == CHOOSE n \in Ranges(pattern) : TRUE
            rest == SubSeq(pattern, i + 1, Len(pattern))
            before == MatchAtPosition(parser, returned.args[1], SubSeq(pattern, 1, i - 1))
            After(k) == MatchAtPosition(parser, before.until + k, rest)
            counts == {k \in pattern[i].min_lines..pattern[i].max_lines :
                          /\ before.until + k <= Len(parser.lines)
                          /\ After(k).err = None}
            skip_count == IF parser.strategy = "lazy" THEN Least(counts) ELSE Greatest(counts)
        IN (before.err = None /\ counts # {}) =>
              /\ returned.err = None
              /\ returned.end_cursor = After(skip_count).until

\* The step is a call of extract_between with must_exist=False and markers
\* that are not empty.
LenientExtract ==
    /\ returned' # returned
    /\ returned'.op = "extract_between"
    /\ returned'.args[1] # <<>>
    /\ returned'.args[2] # <<>>
    /\ ~returned'.args[4]

\* C39: extract_between with must_exist=False and non-empty markers never
\* raises; when the start marker is not found, or the end marker is found
\* nowhere from the start marker on, it returns an empty content list; and
\* the call leaves parser.cursor as it was.
C39_LenientExtractIsEmpty ==
    [][LenientExtract =>
          LET start == SearchMarker(parser, parser.cursor, returned'.args[1])
              end == SearchMarker(parser, start.line, returned'.args[2])
          IN /\ returned'.err = None
             /\ parser'.cursor = parser.cursor
             /\ (start.err = None /\ start.line = -1) => returned'.content = <<>>
             /\ (start.err = None /\ start.line # -1 /\ end.err = None /\ end.line = -1) =>
                    returned'.content = <<>>]_vars

====
